---- MODULE Spec2Model ----
(***************************************************************************)
(* Verification model of the hand-written rewrite patterns of onnx-mlir:   *)
(*   - LoopOpRewriteMaxTripCountPattern (src/Dialect/ONNX/Rewrite.cpp)     *)
(*   - the ZLow stick/unstick rewrite patterns and ZLowRewritePass         *)
(*     (src/Accelerators/NNPA/Transform/ZLow/ZLowRewrite.cpp)              *)
(*   - RNNOpRewriteLayoutPattern (src/Dialect/ONNX/Rewrite.cpp)            *)
(*   - reverseWeightTensor (src/Transform/ONNX/DecomposeAfter.cpp)         *)
(*                                                                         *)
(* Part I models the ONNX loop and the trip-count pattern (SpecLoop).      *)
(* Part II models the ZLow operation graph and its patterns (SpecZLow).    *)
(* Part III models InsertDeallocForAsyncExecRegionPattern (SpecAsync).     *)
(* Part IV models RNNOpRewriteLayoutPattern (SpecRnn).                     *)
(* Part V models reverseWeightTensor of the ConvTranspose decomposition    *)
(* (src/Transform/ONNX/DecomposeAfter.cpp, SpecConv).                      *)
(***************************************************************************)
EXTENDS Integers, Sequences, FiniteSets, TLC

VARIABLES
  (* Part I: one ONNXLoopOp and the values around it *)
  loopOperands,   \* operands of the ONNXLoopOp: <<max trip count, cond, carried...>>
  returnOperands, \* operands of the body's terminator: <<cond, carried...>>
  defs,           \* value name -> its definition (constant, argument, op)
  bodyShape,      \* "ok" | "multiBlock" | "badTerm": the body region's shape
  nCreated,       \* operations created so far by the rewriter
  attempts,       \* applications of the pattern so far
  last,           \* outcome of the latest application of the pattern
  orig,           \* the loop as it was before any rewrite (history)
  (* Part II: one function of ZLow operations *)
  ops,            \* operation -> [kind, opnds, layout, map, dom], the live operations
  order,          \* the live operations in block order
  vtype,          \* value -> its type [shape, lay, elem]
  removableStickOps, \* the pass's set of stick operations to erase at the end
  phase,          \* "rewriting" | "done" | "failed" | "aborted" ("idle" elsewhere)
  nextId,         \* number of the next operation the rewriter creates
  zlast,          \* outcome of the latest pattern application
  zorig,          \* the function as it was before the pass (history)
  zfirst,         \* the result of an earlier run of the pass on zorig, <<>> if none
  (* Part III: one function holding an async.execute operation *)
  aops,           \* operation -> [kind, opnds, block], the live operations
  blocks,         \* block -> its operations in order ("main", "body", "loop")
  anextId,        \* number of the next memref.dealloc the rewriter creates
  alast,          \* outcome of the latest application of the pattern
  aphase,         \* "rewriting" | "aborted" ("idle" under the other specifications)
  aattempts,      \* applications of the pattern so far
  aorig,          \* the function as it was before any application (history)
  (* Part IV: one GRU, LSTM or RNN operation *)
  rnn,            \* the operation: [kind, layout, X, initial_h, initial_c]
  rnnUses,        \* result -> the value the users of the result read
  rnnTransposes,  \* the ONNXTransposeOp operations created: result -> [input, perm]
  rattempts,      \* applications of the pattern so far
  rlast,          \* LogicalResult of the latest application
  (* Part V: the weight tensor of one ConvTranspose *)
  weight,         \* the tensor passed to reverseWeightTensor
  reversed        \* the tensor it returns (<<>> before the call)

loopVars == <<loopOperands, returnOperands, defs, bodyShape, nCreated, attempts, last, orig>>

zlowVars == <<ops, order, vtype, removableStickOps, phase, nextId, zlast, zorig, zfirst>>

asyncVars == <<aops, blocks, anextId, alast, aphase, aattempts, aorig>>

rnnVars == <<rnn, rnnUses, rnnTransposes, rattempts, rlast>>

convVars == <<weight, reversed>>

vars == <<loopOperands, returnOperands, defs, bodyShape, nCreated, attempts, last, orig,
          ops, order, vtype, removableStickOps, phase, nextId, zlast, zorig, zfirst,
          aops, blocks, anextId, alast, aphase, aattempts, aorig,
          rnn, rnnUses, rnnTransposes, rattempts, rlast, weight, reversed>>

(***************************************************************************)
(* Machine arithmetic.  The code computes with int64_t, double (53-bit     *)
(* significand) and f32 (24-bit significand).  The widths are scaled down  *)
(* together so that the whole value range can be enumerated; their order   *)
(* FloatMant < DoubleMant < IntBits - 1 is the order 24 < 53 < 63.         *)
(***************************************************************************)
IntBits == 6
DoubleMant == 4
FloatMant == 3
MaxAttempts == 2

MaxInt == 2^(IntBits - 1) - 1
MinInt == -(2^(IntBits - 1))
IntRange == MinInt..MaxInt

Abs(x) == IF x < 0 THEN -x ELSE x

\* two's complement wrap-around of the integer element type
Wrap(x) == ((x - MinInt) % (2^IntBits)) + MinInt

\* least e such that a / (b * 2^e) < 2^p, for a > 0, b > 0
FloatExp(a, b, p) ==
  CHOOSE e \in (-(p + IntBits + 1))..(IntBits + 1) :
    LET lt(k) == IF k >= 0 THEN a < b * 2^p * 2^k ELSE a * 2^(-k) < b * 2^p
    IN lt(e) /\ ~lt(e - 1)

\* a / b (a >= 0, b > 0) rounded to a p-bit significand, ties to even,
\* as <<m, e>> standing for m * 2^e
RoundRatio(a, b, p) ==
  IF a = 0 THEN <<0, 0>>
  ELSE LET e == FloatExp(a, b, p)
           num == IF e >= 0 THEN a ELSE a * 2^(-e)
           den == IF e >= 0 THEN b * 2^e ELSE b
           q == num \div den
           r == num - q * den
           m == IF 2 * r > den \/ (2 * r = den /\ q % 2 = 1) THEN q + 1 ELSE q
       IN <<m, e>>

\* conversion of an integer to a floating-point type with a p-bit significand
IntToFloat(n, p) ==
  LET me == RoundRatio(Abs(n), 1, p)
      v == IF me[2] >= 0 THEN me[1] * 2^(me[2]) ELSE Abs(n)
  IN IF n < 0 THEN -v ELSE v

\* ceil(x / y) computed in floating point with a p-bit significand, for
\* floating-point values x, y that are integers, y # 0
FloatCeilDiv(x, y, p) ==
  LET me == RoundRatio(Abs(x), Abs(y), p)
      neg == (x < 0) # (y < 0)
      d == IF me[2] >= 0 THEN 1 ELSE 2^(-me[2])
      mag == IF me[2] >= 0 THEN me[1] * 2^(me[2]) ELSE me[1]
  IN IF neg THEN -(mag \div d) ELSE (mag + d - 1) \div d

\* conversion of a floating-point value that is an integer to the integer
\* type: undefined when out of range; builds produce the "integer
\* indefinite" value MinInt or saturate
FloatToInt(x) ==
  IF x \in IntRange THEN {x} ELSE {MinInt, IF x > 0 THEN MaxInt ELSE MinInt}

\* conversion of an infinity or a NaN (a division by zero) to the integer type
NonFiniteToInt == {MinInt, 0, MaxInt}

(***************************************************************************)
(* Part I.  The ONNX loop operation and its values.                        *)
(*                                                                         *)
(* A value is named <<name, k>>.  defs maps a value to its definition:     *)
(*   kind  "const"  an ONNXConstantOp with a dense attribute, value val    *)
(*         "farg"   the result of an operation outside the loop that is not *)
(*                  a constant; its run-time value is val                  *)
(*         "barg"   block argument number argno of the loop body           *)
(*         "add"    ONNXAddOp(a, b)        "less"  ONNXLessOp(a, b)        *)
(*         "other"  any other operation on (a, b)                          *)
(*         "min"    the ONNXMinOp emitted by the pattern, run-time value   *)
(*                  val                                                    *)
(*   ety   element type, "int" or "float"                                  *)
(* Booleans are the integers 0 and 1.                                      *)
(***************************************************************************)
N(s) == <<s, 0>>

Def(kind, ety, val, argno, a, b) ==
  [kind |-> kind, ety |-> ety, val |-> val, argno |-> argno, a |-> a, b |-> b]

ConstDef(v) == Def("const", "int", v, 0, N(""), N(""))
FargDef(v) == Def("farg", "int", v, 0, N(""), N(""))
BargDef(n) == Def("barg", "int", 0, n, N(""), N(""))

isBlockArgument(d, v) == d[v].kind = "barg"

\* How the loop of an initial state deviates from the for-loop idiom
Variants ==
  {"idiom", "lbIsM", "mNotConst", "brkIsArg", "notLess", "floatTy", "notAdd",
   "counterNotUpdated", "multiBlock", "badTerm"}

\* Where the upper bound / the step of the idiom comes from
Sources == {"constIn", "argConst", "argRuntime", "argVaries"}

LBSet == {MinInt, -2, 0, 3}
UBSet == {0, 3, 10, 2^DoubleMant + 1, MaxInt}
StepSet == {-1, 0, 1, 3}
MSet == {2, 2^DoubleMant - 1, MaxInt}

\* ONNXLoop(vM, vC0, vLB, vUB, vS)
\*   ^bb(b0 = iteration, b1 = cond, b2 = counter, b3 = upper bound, b4 = step):
\*     add = ONNXAddOp(b2, step)     cmp = ONNXLessOp(add, ub)
\*     ONNXReturnOp(cmp, add, b3, b4)
LoopGraph(variant, lbConst, ubSrc, stSrc, lb, ub, st, m, c0) ==
  [ opnds |-> <<N("vM"), N("vC0"), IF variant = "lbIsM" THEN N("vM") ELSE N("vLB"),
                N("vUB"), N("vS")>>,
    ret |-> << IF variant = "brkIsArg" THEN N("b1") ELSE N("cmp"),
               IF variant = "counterNotUpdated" THEN N("b2") ELSE N("add"),
               IF ubSrc = "argVaries" THEN N("add") ELSE N("b3"),
               IF stSrc = "argVaries" THEN N("add") ELSE N("b4") >>,
    shape |-> IF variant \in {"multiBlock", "badTerm"} THEN variant ELSE "ok",
    par |-> [variant |-> variant, lbConst |-> lbConst, ubSrc |-> ubSrc, stSrc |-> stSrc,
             lb |-> IF variant = "lbIsM" THEN m ELSE lb, ub |-> ub, st |-> st, m |-> m,
             c0 |-> c0],
    defs |->
      (N("vM") :> (IF variant = "mNotConst" THEN FargDef(m) ELSE ConstDef(m))) @@
      (N("vC0") :> FargDef(c0)) @@
      (N("vLB") :> (IF lbConst THEN ConstDef(lb) ELSE FargDef(lb))) @@
      (N("vUB") :> (IF ubSrc = "argConst" THEN ConstDef(ub) ELSE FargDef(ub))) @@
      (N("vS") :> (IF stSrc = "argConst" THEN ConstDef(st) ELSE FargDef(st))) @@
      (N("b0") :> BargDef(0)) @@ (N("b1") :> BargDef(1)) @@ (N("b2") :> BargDef(2)) @@
      (N("b3") :> BargDef(3)) @@ (N("b4") :> BargDef(4)) @@
      (N("cUB") :> ConstDef(ub)) @@ (N("cS") :> ConstDef(st)) @@
      (N("add") :> Def(IF variant = "notAdd" THEN "other" ELSE "add",
                       IF variant = "floatTy" THEN "float" ELSE "int", 0, 0,
                       N("b2"), IF stSrc = "constIn" THEN N("cS") ELSE N("b4"))) @@
      (N("cmp") :> Def(IF variant = "notLess" THEN "other" ELSE "less", "int", 0, 0,
                       N("add"), IF ubSrc = "constIn" THEN N("cUB") ELSE N("b3"))) ]

\* The initial loops: the idiom with every source of its upper bound or of
\* its step, and each deviation from it with constant bounds.
InitLoops ==
  { LoopGraph(p[1], p[2], p[3], p[4], p[5], p[6], p[7], p[8], p[9]) :
      p \in { q \in Variants \X BOOLEAN \X Sources \X Sources \X LBSet \X UBSet \X StepSet
                     \X MSet \X {0, 1} :
                \/ q[1] = "idiom" /\ (q[3] = "constIn" \/ q[4] = "constIn")
                \/ /\ q[1] = "lbIsM" /\ q[2] /\ q[3] = "constIn" /\ q[4] = "constIn"
                   /\ q[9] = 1
                \/ /\ q[1] # "idiom" /\ q[2] /\ q[3] = "constIn" /\ q[4] = "constIn"
                   /\ q[8] = MaxInt /\ q[9] = 1 } }

(***************************************************************************)
(* LoopOpRewriteMaxTripCountPattern: the helpers, over a definition map d, *)
(* the loop operands opnds and the terminator operands ret.  Operand i of  *)
(* the code is element i + 1 of a sequence.                                *)
(***************************************************************************)
isDefinedByIntegerConstantOp(d, v) ==
  IF isBlockArgument(d, v) THEN FALSE
  ELSE d[v].ety = "int" /\ d[v].kind = "const"

isInvariantBlockArg(d, ret, v) ==
  isBlockArgument(d, v) /\ v = ret[d[v].argno]

isIntConstantOrInvariantBlockArg(d, ret, v) ==
  \/ isBlockArgument(d, v) /\ isInvariantBlockArg(d, ret, v)
  \/ ~isBlockArgument(d, v) /\ isDefinedByIntegerConstantOp(d, v)

isUpdatedArgByValue(d, ret, v, newV) ==
  isBlockArgument(d, v) /\ newV = ret[d[v].argno]

getFedValue(d, opnds, arg) == opnds[d[arg].argno + 1]

getOneIntegerConstant(d, v) == d[v].val

\* upperBound - lowerBound in int64_t: signed overflow is undefined; builds
\* wrap around or the optimizer assumes an extreme
ConstRange(ub, lb) ==
  IF ub - lb \in IntRange THEN {ub - lb} ELSE {Wrap(ub - lb), MinInt, MaxInt}

\* int64_t derivedTripCount = ceil((1.0 * range) / (1.0 * step)), step > 0
derivedTripCount(range, step) ==
  IF IntToFloat(step, DoubleMant) = 0 THEN NonFiniteToInt
  ELSE
  FloatToInt(FloatCeilDiv(IntToFloat(range, DoubleMant), IntToFloat(step, DoubleMant),
                          DoubleMant))

\* The values the emitted ONNX operations compute at run time:
\* Cast(Ceil(Div(Cast(Sub(ub, lb), f32), Cast(step, f32))), int)
emittedTripCount(ub, lb, step) ==
  LET range == Wrap(ub - lb)
      rangeInFloat == IntToFloat(range, FloatMant)
      stepInFloat == IntToFloat(step, FloatMant)
  IN IF stepInFloat = 0 THEN NonFiniteToInt
     ELSE FloatToInt(FloatCeilDiv(rangeInFloat, stepInFloat, FloatMant))

\* the derived count taken without the minimum
MinDropped(a, b) == b

\* onnx.min(ValueRange({maxTripCountValue, newMaxTripCountValue}))
Min(a, b) == IF a <= b THEN a ELSE b

NoMatch(clones) ==
  [matched |-> FALSE, case |-> "none", clones |-> clones, created |-> clones,
   newMax |-> 0, kind |-> "none", derived |-> 0]

\* a comparison that lets an empty range through
declineConstCaseStrict(step, upperBound, lowerBound) ==
  step <= 0 \/ upperBound < lowerBound

\* if ((step <= 0) || (upperBound <= lowerBound)) return no match
declineConstCase(step, upperBound, lowerBound) ==
  step <= 0 \/ upperBound <= lowerBound

\* if (maxTripCount <= derivedTripCount) return no match
tripCountNotSmaller(maxTripCount, derived) == maxTripCount <= derived

\* matchOp, after the upper bound and the step have been resolved to values
\* outside the loop (clones counts the constants cloned for that)
matchOpResolved(d, opnds, lbValue, ubValue, stepValue, clones) ==
  LET maxTripCountValue == opnds[1] IN
  IF /\ isDefinedByIntegerConstantOp(d, lbValue)
     /\ isDefinedByIntegerConstantOp(d, ubValue)
     /\ isDefinedByIntegerConstantOp(d, stepValue)
  THEN \* Case 1: computed at compile time
    LET lowerBound == getOneIntegerConstant(d, lbValue)
        upperBound == getOneIntegerConstant(d, ubValue)
        step == getOneIntegerConstant(d, stepValue)
        maxTripCount == getOneIntegerConstant(d, maxTripCountValue)
    IN IF declineConstCase(step, upperBound, lowerBound) THEN {NoMatch(clones)}
       ELSE { IF tripCountNotSmaller(maxTripCount, t)
              THEN [NoMatch(clones) EXCEPT !.derived = t]
              ELSE [matched |-> TRUE, case |-> "const", clones |-> clones,
                    created |-> clones + 1, newMax |-> t, kind |-> "const",
                    derived |-> t] :
                t \in UNION { derivedTripCount(r, step) :
                                r \in ConstRange(upperBound, lowerBound) } }
  ELSE \* Case 2: emitted code computes min(old, derived) at run time
    { [matched |-> TRUE, case |-> "runtime", clones |-> clones, created |-> clones + 7,
       newMax |-> Min(d[maxTripCountValue].val, t), kind |-> "min", derived |-> t] :
        t \in emittedTripCount(d[ubValue].val, d[lbValue].val, d[stepValue].val) }

\* matchOp: the set of its possible results
matchOp(d, opnds, ret, shape) ==
  LET maxTripCountValue == opnds[1]
      breakCond == ret[1]
  IN
  IF ~isDefinedByIntegerConstantOp(d, maxTripCountValue) THEN {NoMatch(0)}
  ELSE IF shape = "multiBlock" THEN {NoMatch(0)}
  ELSE IF shape = "badTerm" THEN {NoMatch(0)}
  ELSE IF isBlockArgument(d, breakCond) THEN {NoMatch(0)}
  ELSE IF d[breakCond].kind # "less" THEN {NoMatch(0)}
  ELSE
    LET newCounterValue == d[breakCond].a
        ubValue == d[breakCond].b
    IN
    IF d[newCounterValue].ety # "int" THEN {NoMatch(0)}
    ELSE IF isBlockArgument(d, newCounterValue) \/ d[newCounterValue].kind # "add"
    THEN {NoMatch(0)}
    ELSE
      LET counterValue == d[newCounterValue].a
          stepValue == d[newCounterValue].b
      IN
      IF ~isUpdatedArgByValue(d, ret, counterValue, newCounterValue) THEN {NoMatch(0)}
      ELSE IF ~isIntConstantOrInvariantBlockArg(d, ret, stepValue) THEN {NoMatch(0)}
      ELSE
        LET lbValue == getFedValue(d, opnds, counterValue) IN
        IF ~isIntConstantOrInvariantBlockArg(d, ret, ubValue) THEN {NoMatch(0)}
        ELSE
          LET ubInv == isInvariantBlockArg(d, ret, ubValue)
              stInv == isInvariantBlockArg(d, ret, stepValue)
              \* a cloned constant has the value and type of the original
              ubOut == IF ubInv THEN getFedValue(d, opnds, ubValue) ELSE ubValue
              stOut == IF stInv THEN getFedValue(d, opnds, stepValue) ELSE stepValue
              clones == (IF ubInv THEN 0 ELSE 1) + (IF stInv THEN 0 ELSE 1)
          IN matchOpResolved(d, opnds, lbValue, ubOut, stOut, clones)

(***************************************************************************)
(* The loop as it runs (Rewrite.cpp, the pattern's description):           *)
(*   i = 0; while (i < max_trip_count && keepGoing) { body; i = i + 1 }    *)
(* args is <<iteration, cond, carried...>>, the body's block arguments.    *)
(***************************************************************************)
RECURSIVE EvalBody(_, _, _)
EvalBody(d, args, v) ==
  CASE d[v].kind = "barg" -> args[d[v].argno + 1]
    [] d[v].kind = "add" -> Wrap(EvalBody(d, args, d[v].a) + EvalBody(d, args, d[v].b))
    [] d[v].kind = "less" ->
         IF EvalBody(d, args, d[v].a) < EvalBody(d, args, d[v].b) THEN 1 ELSE 0
    [] OTHER -> d[v].val

RECURSIVE RunLoop(_, _, _, _, _)
RunLoop(d, ret, maxTripCount, i, args) ==
  IF i < maxTripCount /\ args[2] = 1
  THEN RunLoop(d, ret, maxTripCount, i + 1,
               <<i + 1>> \o [k \in 1..Len(ret) |-> EvalBody(d, args, ret[k])])
  ELSE i

\* the number of body iterations the loop executes
IterCount(d, opnds, ret) ==
  RunLoop(d, ret, d[opnds[1]].val, 0,
          <<0>> \o [k \in 1..(Len(opnds) - 1) |-> d[opnds[k + 1]].val])

(***************************************************************************)
(* LoopOpRewriteMaxTripCountPattern::matchAndRewrite, one application.     *)
(***************************************************************************)
\* the terminator's operands with the break condition left in place
setOperandDropped(operands, i, v) == operands

\* op->setOperand(i, v)
setOperand(operands, i, v) == [operands EXCEPT ![i + 1] = v]

NoAttempt ==
  [matched |-> FALSE, case |-> "none", oldMax |-> 0, derived |-> 0, created |-> 0]

LoopOpRewriteMaxTripCountPattern ==
  /\ attempts < MaxAttempts
  /\ \E r \in matchOp(defs, loopOperands, returnOperands, bodyShape) :
       LET maxTripCountValue == loopOperands[1]
           newMaxTripCountValue == <<"newMax", attempts + 1>>
       IN
       /\ attempts' = attempts + 1
       /\ nCreated' = nCreated + r.created
       /\ last' = [matched |-> r.matched, case |-> r.case,
                   oldMax |-> defs[maxTripCountValue].val, derived |-> r.derived,
                   created |-> r.created]
       /\ IF r.matched
          THEN /\ defs' = defs @@ (newMaxTripCountValue :>
                                     Def(r.kind, "int", r.newMax, 0, maxTripCountValue, N("")))
               \* loopOp->replaceUsesOfWith(maxTripCountValue, newMaxTripCountValue)
               /\ loopOperands' =
                    [i \in 1..Len(loopOperands) |->
                       IF loopOperands[i] = maxTripCountValue THEN newMaxTripCountValue
                       ELSE loopOperands[i]]
               \* loopBodyTerminator->setOperand(0, loopBody.front().getArgument(1))
               /\ returnOperands' = setOperand(returnOperands, 0, N("b1"))
          ELSE UNCHANGED <<defs, loopOperands, returnOperands>>
       /\ UNCHANGED <<bodyShape, orig, zlowVars, asyncVars, rnnVars, convVars>>

\* the last ZLow pattern application: none yet
NoRewrite ==
  [rule |-> "none", op |-> <<>>, outcome |-> "none", replaced |-> <<>>, by |-> <<>>,
   via |-> <<>>]

\* the ZLow pass is not part of this pattern
ZLowIdle ==
  /\ ops = <<>> /\ order = <<>> /\ vtype = <<>> /\ removableStickOps = {}
  /\ phase = "idle" /\ nextId = 1 /\ zlast = NoRewrite /\ zorig = <<>> /\ zfirst = <<>>

NoApplication == [outcome |-> "none", yielded |-> <<>>, user |-> <<>>, point |-> <<>>]

AsyncIdle ==
  /\ aops = <<>> /\ blocks = <<>> /\ anextId = 1 /\ alast = NoApplication
  /\ aphase = "idle" /\ aattempts = 0 /\ aorig = <<>>

\* no RNN operation is part of this function
RnnIdle ==
  /\ rnn = <<>> /\ rnnUses = <<>> /\ rnnTransposes = <<>> /\ rattempts = 0
  /\ rlast = "none"

\* no ConvTranspose is part of this function
ConvIdle == weight = <<>> /\ reversed = <<>>

LoopInit ==
  \E g \in InitLoops :
    /\ ZLowIdle
    /\ AsyncIdle
    /\ RnnIdle
    /\ ConvIdle
    /\ loopOperands = g.opnds
    /\ returnOperands = g.ret
    /\ defs = g.defs
    /\ bodyShape = g.shape
    /\ orig = [opnds |-> g.opnds, ret |-> g.ret, par |-> g.par]
    /\ nCreated = 0
    /\ attempts = 0
    /\ last = NoAttempt

LoopNext == LoopOpRewriteMaxTripCountPattern

SpecLoop == LoopInit /\ [][LoopNext]_vars

(***************************************************************************)
(* Claims about the trip-count pattern, checked under SpecLoop.            *)
(***************************************************************************)
Par == orig.par

\* the loop is the for-loop idiom
IsIdiom == Par.variant \in {"idiom", "lbIsM"}

\* lower bound, upper bound and step are compile-time constants
ConstBounds ==
  /\ Par.lbConst
  /\ Par.ubSrc \in {"constIn", "argConst"}
  /\ Par.stSrc \in {"constIn", "argConst"}

\* at least one of lower bound, upper bound, step is only known at run time
RuntimeBounds ==
  /\ Par.ubSrc # "argVaries" /\ Par.stSrc # "argVaries"
  /\ ~ConstBounds

\* the smallest n with lb + n * st >= ub, for st > 0 and ub > lb
ExactCeil(lb, ub, st) ==
  CHOOSE n \in 1..(ub - lb) :
    /\ lb + n * st >= ub
    /\ \A k \in 1..(n - 1) : lb + k * st < ub

SameIterations ==
  IterCount(defs, loopOperands, returnOperands) = IterCount(defs, orig.opnds, orig.ret)

\* C1: in the constant case, a rewritten loop executes exactly as many body
\* iterations as the original loop, for every initial condition.
C1_ConstCaseSameIterations ==
  (last.matched /\ last.case = "const") => SameIterations

\* C2: in the run-time case, a rewritten loop executes exactly as many body
\* iterations as the original loop, for all run-time values of the lower
\* bound, the upper bound and the step.
C2_RuntimeCaseSameIterations ==
  (last.matched /\ last.case = "runtime") => SameIterations

\* C3: after a successful rewrite the new max trip count is never larger than
\* the original one; in the constant case it is strictly smaller, in the
\* run-time case it is the minimum of the old bound and the derived count.
C3_TripCountNeverLarger ==
  last.matched =>
    LET new == defs[loopOperands[1]].val IN
    /\ new <= last.oldMax
    /\ last.case = "const" => new < last.oldMax
    /\ last.case = "runtime" => new = (IF last.oldMax <= last.derived THEN last.oldMax
                                       ELSE last.derived)

C3_Witness ==
  /\ last.matched /\ last.case = "runtime"
  /\ last.derived > last.oldMax
  /\ defs[loopOperands[1]].val = last.oldMax

\* C4: in the constant case with step > 0 and upper > lower, the derived trip
\* count is the exact integer ceiling of (upper - lower) / step.
C4_DerivedIsExactCeiling ==
  (attempts = 1 /\ IsIdiom /\ ConstBounds /\ Par.st > 0 /\ Par.ub > Par.lb) =>
    last.derived = ExactCeil(Par.lb, Par.ub, Par.st)

\* C5: with constant bounds and step <= 0 or upper <= lower the pattern
\* declines, and the loop's max trip count operand and the terminator's break
\* condition are what they were before the attempt.
C5_DeclinesOnEmptyRange ==
  (attempts > 0 /\ ConstBounds /\ (Par.st <= 0 \/ Par.ub <= Par.lb)) =>
    /\ ~last.matched
    /\ loopOperands[1] = orig.opnds[1]
    /\ returnOperands[1] = orig.ret[1]

C5_Witness ==
  /\ attempts > 0 /\ IsIdiom /\ ConstBounds
  /\ Par.st > 0 /\ Par.ub = Par.lb
  /\ ~last.matched

\* C22: whenever a rule reports no match (the trip-count pattern, the ZLow
\* stick/unstick patterns and the chain eliminator, the async-region pattern),
\* the function is exactly as it was before the attempt: no operation has been
\* created, cloned, moved, erased or re-typed.
C22_DeclinedLeavesGraphUntouched ==
  [][/\ (attempts' = attempts + 1 /\ ~last'.matched) =>
          /\ nCreated' = nCreated
          /\ loopOperands' = loopOperands /\ returnOperands' = returnOperands
          /\ defs' = defs
     /\ (zlast' # zlast /\ zlast'.outcome = "declined") =>
          /\ ops' = ops /\ order' = order /\ vtype' = vtype
          /\ nextId' = nextId /\ removableStickOps' = removableStickOps
     /\ (aattempts' = aattempts + 1 /\ alast'.outcome = "declined") =>
          /\ aops' = aops /\ blocks' = blocks /\ anextId' = anextId]_vars

\* C24: once the pattern has rewritten a loop, applying it again to that loop
\* declines and changes nothing: no operand changes and nothing is created.
C24_SecondApplicationDeclines ==
  [][(last.matched /\ attempts' = attempts + 1) =>
       /\ ~last'.matched
       /\ nCreated' = nCreated
       /\ loopOperands' = loopOperands /\ returnOperands' = returnOperands
       /\ defs' = defs]_vars

C24_Witness ==
  /\ attempts = 2 /\ ~last.matched
  /\ orig.ret[1] = N("cmp") /\ returnOperands[1] = N("b1")
  /\ loopOperands[1] # orig.opnds[1]

\* C28: a successful rewrite changes exactly two operands: operand 0 of the
\* loop becomes the new bound and operand 0 of the terminator becomes block
\* argument 1; every other operand of the loop, one that is the same value as
\* the old max trip count included, and every other operand of the terminator
\* is what it was.
C28_RewriteChangesTwoOperands ==
  [][(attempts' = attempts + 1 /\ last'.matched) =>
       /\ loopOperands'[1] \notin DOMAIN defs
       /\ loopOperands'[1] \in DOMAIN defs'
       /\ returnOperands'[1] = N("b1")
       /\ Len(loopOperands') = Len(loopOperands)
       /\ Len(returnOperands') = Len(returnOperands)
       /\ \A i \in 2..Len(loopOperands) : loopOperands'[i] = loopOperands[i]
       /\ \A i \in 2..Len(returnOperands) : returnOperands'[i] = returnOperands[i]]_vars

(***************************************************************************)
(* Part II.  The ZLow operation graph.                                     *)
(*                                                                         *)
(* An operation is named <<name, k>>; an operation with a result defines   *)
(* the value of the same name; the other values are function arguments.    *)
(*   kind "alloc"   memref.alloc(dynamic sizes...)                         *)
(*        "dim"     an index computed from buffer opnds[1]                 *)
(*        "unstick" zlow.unstick(X, Out) {layout}   (decode)               *)
(*        "stick"   zlow.stick(X, Out) {layout}     (encode)               *)
(*        "view"    a ViewLikeOpInterface operation on opnds[1]            *)
(*        "load"    affine.load opnds[1][map(iv)], for iv over dom         *)
(*        "store"   affine.store opnds[1], opnds[2][map(iv)]               *)
(*        "dummy"   zlow.dummy(opnds[1]), an element type adapter          *)
(*        "use"     any other operation reading opnds[1]                   *)
(* A copy loop is represented by its load and its stores, at the place of  *)
(* the loop in the block; dom is the shape of its iteration space and map  *)
(* lists, per result, the iteration dimension it selects.                  *)
(* layout "" is an absent layout attribute.                                *)
(***************************************************************************)
Op(kind, opnds, layout, map, dom) ==
  [kind |-> kind, opnds |-> opnds, layout |-> layout, map |-> map, dom |-> dom]

Ty(shape, lay, elem) == [shape |-> shape, lay |-> lay, elem |-> elem]

LAYOUT_NCHW == "NCHW"
LAYOUT_1D == "1D"
LAYOUT_2DS == "2DS"

HasResult(kind) == kind \in {"alloc", "dim", "view", "load", "dummy", "const"}

isBlockArg(o, v) == v \notin DOMAIN o

\* the uses of value v: <<operation, operand index>>
Uses(o, v) ==
  UNION { { <<u, i>> : i \in { j \in 1..Len(o[u].opnds) : o[u].opnds[j] = v } } :
            u \in DOMAIN o }

Users(o, v) == { ui[1] : ui \in Uses(o, v) }

\* a test that accepts a value with other uses
hasSomeUse(o, v) == Cardinality(Uses(o, v)) >= 1

hasOneUse(o, v) == Cardinality(Uses(o, v)) = 1

\* a test that takes every value for unused
use_emptyAlways(o, v) == TRUE

use_empty(o, v) == Uses(o, v) = {}

IndexOf(ord, x) == CHOOSE i \in 1..Len(ord) : ord[i] = x

isBeforeInBlock(ord, a, b) == IndexOf(ord, a) < IndexOf(ord, b)

hasNonIdentityLayout(t) == t.lay # "none"

hasStaticShape(t) == \A i \in 1..Len(t.shape) : t.shape[i] >= 0

\* value.replaceAllUsesWith(by)
replaceAllUsesWith(o, v, by) ==
  [u \in DOMAIN o |->
     [o[u] EXCEPT !.opnds = [i \in 1..Len(o[u].opnds) |->
                               IF o[u].opnds[i] = v THEN by ELSE o[u].opnds[i]]]]

\* erase operation x from the operations o / from the block order ord
EraseOp(o, x) == [u \in DOMAIN o \ {x} |-> o[u]]

Without(ord, xs) ==
  LET F[i \in 0..Len(ord)] ==
        IF i = 0 THEN <<>>
        ELSE IF ord[i] \in xs THEN F[i - 1] ELSE Append(F[i - 1], ord[i])
  IN F[Len(ord)]

EraseOrd(ord, x) == Without(ord, {x})

\* the block order with operation x placed right after operation a
InsertAfter(ord, a, x) ==
  LET i == IndexOf(ord, a)
  IN SubSeq(ord, 1, i) \o <<x>> \o SubSeq(ord, i + 1, Len(ord))

moveAfter(ord, x, a) == InsertAfter(EraseOrd(ord, x), a, x)

(***************************************************************************)
(* Types of stickified buffers.  zlow.stick / zlow.unstick keep the shape  *)
(* except for NCHW, whose stickified side is in NHWC (the dimensions are   *)
(* permuted and the buffer carries the NHWC map).                          *)
(***************************************************************************)
\* NCHW -> NHWC, the permutation {0, 2, 3, 1}
Permute(t) == <<t[1], t[3], t[4], t[2]>>

\* NHWC -> NCHW
PermuteInv(t) == <<t[1], t[4], t[2], t[3]>>

MapOfLayout(tag) == IF tag = LAYOUT_NCHW THEN "NHWC" ELSE tag

StickifiedType(cpuShape, tag) ==
  Ty(IF tag = LAYOUT_NCHW THEN Permute(cpuShape) ELSE cpuShape, MapOfLayout(tag), "f16")

CpuType(shape) == Ty(shape, "none", "f32")

ScalarType(elem) == Ty(<<>>, "none", elem)

(***************************************************************************)
(* The functions the pass starts from.                                     *)
(***************************************************************************)
Tags == {"2D", "2DS", "NHWC", LAYOUT_NCHW}

Rank(tag) == IF tag = LAYOUT_1D THEN 1 ELSE IF tag \in {"2D", "2DS"} THEN 2 ELSE 4

SameRank(tag) == { t \in Tags : Rank(t) = Rank(tag) }

\* index tuple / shape t seen through the dimension selection map m
Sel(m, t) == [k \in 1..Len(m) |-> t[m[k]]]

\* A round trip, directly or through a view, followed by a second round trip:
\*   zlow.unstick(argX, A) {la}    [V = view(A)]    zlow.stick(A or V, R1) {lb}
\*   zlow.unstick(R1, B) {lb}      zlow.stick(B, R2) {lb}      use(R2)
\* mid:  how the first stick's input relates to A
\* flag: "late" puts the first unstick after the stick, "dyn" makes the first
\*       dimension dynamic, "noStickTag"/"noUnstickTag" drop a layout attribute,
\*       "dead" leaves R2 without a reader
\*       ("viewShared": through a view that another operation reads as well)
Mids == {"direct", "view", "viewShared", "viewReshape", "viewStrided", "blockArg", "otherDef"}
Flags == {"plain", "late", "dyn", "noStickTag", "noUnstickTag", "dead"}

RoundTripGraph(la, lb, mid, flag) ==
  LET base == IF Rank(la) = 2 THEN <<2, 3>> ELSE <<1, 3, 5, 7>>
      sA == IF flag = "dyn" THEN [base EXCEPT ![1] = -1] ELSE base
      A == IF mid = "blockArg" THEN N("argA") ELSE N("aA")
      hasView == mid \in {"view", "viewShared", "viewReshape", "viewStrided"}
      sIn == IF mid = "viewReshape" THEN Sel(<<2, 1>> \o [k \in 1..(Len(sA) - 2) |-> k + 2], sA)
             ELSE sA
      In == IF hasView THEN N("v") ELSE IF mid = "otherDef" THEN N("aA2") ELSE A
      u1 == Op("unstick", <<N("argX"), A>>, IF flag = "noUnstickTag" THEN "" ELSE la,
               <<>>, <<>>)
      s1 == Op("stick", <<In, N("aR1")>>, IF flag = "noStickTag" THEN "" ELSE lb, <<>>, <<>>)
      alloc == Op("alloc", <<>>, "", <<>>, <<>>)
  IN
  [ ops |->
      (IF mid = "blockArg" THEN <<>> ELSE (N("aA") :> alloc)) @@
      (N("u1") :> u1) @@
      (IF hasView THEN (N("v") :> Op("view", <<A>>, "", <<>>, <<>>)) ELSE <<>>) @@
      (IF mid = "otherDef" THEN (N("aA2") :> alloc) ELSE <<>>) @@
      (N("aR1") :> alloc) @@ (N("s1") :> s1) @@
      (IF mid = "viewShared" THEN (N("cv") :> Op("use", <<N("v")>>, "", <<>>, <<>>))
       ELSE <<>>) @@
      (N("aB") :> alloc) @@ (N("u2") :> Op("unstick", <<N("aR1"), N("aB")>>, lb, <<>>, <<>>)) @@
      (N("aR2") :> alloc) @@ (N("s2") :> Op("stick", <<N("aB"), N("aR2")>>, lb, <<>>, <<>>)) @@
      (IF flag = "dead" THEN <<>> ELSE (N("c") :> Op("use", <<N("aR2")>>, "", <<>>, <<>>))),
    order |->
      (IF mid = "blockArg" THEN <<>> ELSE <<N("aA")>>) \o
      (IF flag = "late" THEN <<>> ELSE <<N("u1")>>) \o
      (IF hasView THEN <<N("v")>> ELSE <<>>) \o
      (IF mid = "otherDef" THEN <<N("aA2")>> ELSE <<>>) \o
      <<N("aR1"), N("s1")>> \o
      (IF mid = "viewShared" THEN <<N("cv")>> ELSE <<>>) \o
      (IF flag = "late" THEN <<N("u1")>> ELSE <<>>) \o
      <<N("aB"), N("u2"), N("aR2"), N("s2")>> \o
      (IF flag = "dead" THEN <<>> ELSE <<N("c")>>),
    vtype |->
      (N("argX") :> StickifiedType(sA, la)) @@
      (A :> CpuType(sA)) @@
      (N("v") :> Ty(sIn, IF mid = "viewStrided" THEN "strided" ELSE "none", "f32")) @@
      (N("aA2") :> CpuType(sA)) @@
      (N("aR1") :> StickifiedType(sIn, lb)) @@
      (N("aB") :> CpuType(sIn)) @@
      (N("aR2") :> StickifiedType(sIn, lb)) ]

RoundTripGraphs ==
  { RoundTripGraph(p[1], p[2], p[3], p[4]) :
      p \in { q \in Tags \X Tags \X Mids \X Flags :
                /\ q[2] \in SameRank(q[1])
                \* a conversion without a layout attribute converts in place
                /\ q[4] = "noUnstickTag" => q[1] # LAYOUT_NCHW
                /\ q[4] = "noStickTag" => q[2] # LAYOUT_NCHW } }

\* A chain through a copy loop, and possibly a second one into the same buffer:
\*   zlow.unstick(argX1, A1) {l1}       [zlow.unstick(argX2, A2) {l1b}]
\*   B = alloc
\*   for iv: B[mp(iv)] = A1[mq(iv)]     [for iv: B[mp(iv)] = A2[mq(iv)]]
\*   R = alloc(dim argX1)    zlow.stick(B, R) {l2}    use(R)
\* second: "none" | "ok" | "loadUsed" (the second loaded value has another user)
Seconds == {"none", "ok", "loadUsed"}

MapsOfRank(r) ==
  IF r = 1 THEN {<<1>>}
  ELSE IF r = 2 THEN {<<1, 2>>, <<2, 1>>} ELSE {<<1, 2, 3, 4>>, <<1, 4, 3, 2>>}

AllMaps == MapsOfRank(1) \cup MapsOfRank(2) \cup MapsOfRank(4)

IterShape(r) == IF r = 1 THEN <<2>> ELSE IF r = 2 THEN <<2, 1>> ELSE <<1, 2, 1, 1>>

ChainGraph(l1, l1b, l2, mq, mp, second) ==
  LET D == IterShape(Rank(l1))
      sA == Sel(mq, D)
      sB == Sel(mp, D)
      two == second # "none"
      alloc == Op("alloc", <<>>, "", <<>>, <<>>)
  IN
  [ ops |->
      (N("aA1") :> alloc) @@
      (N("u1") :> Op("unstick", <<N("argX1"), N("aA1")>>, l1, <<>>, <<>>)) @@
      (IF two
       THEN (N("aA2") :> alloc) @@
            (N("u2") :> Op("unstick", <<N("argX2"), N("aA2")>>, l1b, <<>>, <<>>)) @@
            (N("ld2") :> Op("load", <<N("aA2")>>, "", mq, D)) @@
            (N("st2") :> Op("store", <<N("ld2"), N("aB")>>, "", mp, D))
       ELSE <<>>) @@
      (IF second = "loadUsed" THEN (N("c2") :> Op("use", <<N("ld2")>>, "", <<>>, <<>>))
       ELSE <<>>) @@
      (N("aB") :> alloc) @@
      (N("ld1") :> Op("load", <<N("aA1")>>, "", mq, D)) @@
      (N("st1") :> Op("store", <<N("ld1"), N("aB")>>, "", mp, D)) @@
      (N("dimX") :> Op("dim", <<N("argX1")>>, "", <<>>, <<>>)) @@
      (N("aR") :> Op("alloc", <<N("dimX")>>, "", <<>>, <<>>)) @@
      (N("s") :> Op("stick", <<N("aB"), N("aR")>>, l2, <<>>, <<>>)) @@
      (N("c") :> Op("use", <<N("aR")>>, "", <<>>, <<>>)),
    order |->
      <<N("aA1"), N("u1")>> \o (IF two THEN <<N("aA2"), N("u2")>> ELSE <<>>) \o
      <<N("aB"), N("ld1"), N("st1")>> \o
      (IF two THEN <<N("ld2"), N("st2")>> ELSE <<>>) \o
      (IF second = "loadUsed" THEN <<N("c2")>> ELSE <<>>) \o
      <<N("dimX"), N("aR"), N("s"), N("c")>>,
    vtype |->
      (N("argX1") :> StickifiedType(sA, l1)) @@ (N("aA1") :> CpuType(sA)) @@
      (N("argX2") :> StickifiedType(sA, l1b)) @@ (N("aA2") :> CpuType(sA)) @@
      (N("aB") :> CpuType(sB)) @@ (N("aR") :> StickifiedType(sB, l2)) @@
      (N("ld1") :> ScalarType("f32")) @@ (N("ld2") :> ScalarType("f32")) @@
      (N("dimX") :> ScalarType("index")) ]

ChainGraphs ==
  { ChainGraph(p[1], p[2], p[3], p[4], p[5], p[6]) :
      p \in { q \in Tags \X Tags \X Tags \X AllMaps \X AllMaps \X Seconds :
                /\ q[2] \in SameRank(q[1]) /\ q[3] \in SameRank(q[1])
                /\ q[4] \in MapsOfRank(Rank(q[1])) /\ q[5] \in MapsOfRank(Rank(q[1]))
                /\ (q[6] = "none" => q[2] = q[1]) } }

\* A single chain that deviates from the pattern in one respect:
\*   "xPlain"        the unstick's source type has the identity layout
\*   "outMapped"     the unstick's destination type has an affine layout
\*   "outOtherUser"  A1 has a user that is neither the unstick nor a load
\*   "loadOtherUser" the loaded value has a user that is not a store
\*   "loadUnstored"  the loaded value has no user
\*   "deadLoad"      a second load of A1 has no user
\*   "twoStores"     the loaded value is stored twice
\*   "dstBlockArg"   B is a block argument
\*   "dstView"       B is a view of an allocation
\*   "dstOtherUser"  B has a user that is neither a store nor a stick
\*   "twoSticks"     B is the input of two sticks
\*   "noStick"       B is the input of no stick
\*   "constStore"    a constant is stored into B before the copy (as PadOp does)
\*   "outUnused"     R has no reader
\*   "dimIndexLate"  the dimension R is allocated with is read at an index
\*                   constant that is defined after the copy loop
ChainVariants ==
  {"std", "xPlain", "outMapped", "outOtherUser", "loadOtherUser", "loadUnstored",
   "deadLoad", "twoStores", "dstBlockArg", "dstView", "dstOtherUser", "twoSticks",
   "noStick", "constStore", "outUnused", "dimIndexLate"}

ChainTags == Tags \cup {LAYOUT_1D}

ChainVariantGraph(l1, l2, variant) ==
  LET m == CHOOSE id \in MapsOfRank(Rank(l1)) : \A k \in 1..Len(id) : id[k] = k
      D == IterShape(Rank(l1))
      g == ChainGraph(l1, l1, l2, m, m, "none")
      use(v) == Op("use", <<v>>, "", <<>>, <<>>)
      alloc == Op("alloc", <<>>, "", <<>>, <<>>)
      B == IF variant = "dstBlockArg" THEN N("argB") ELSE N("aB")
  IN
  CASE variant = "xPlain" ->
         [g EXCEPT !.vtype = (N("argX1") :> [g.vtype[N("argX1")] EXCEPT !.lay = "none"]) @@ @]
    [] variant = "outMapped" ->
         [g EXCEPT !.vtype = (N("aA1") :> [g.vtype[N("aA1")] EXCEPT !.lay = "strided"]) @@ @]
    [] variant = "outOtherUser" ->
         [g EXCEPT !.ops = (N("cA") :> use(N("aA1"))) @@ @,
                   !.order = InsertAfter(@, N("st1"), N("cA"))]
    [] variant = "loadOtherUser" ->
         [g EXCEPT !.ops = (N("cL") :> use(N("ld1"))) @@ @,
                   !.order = InsertAfter(@, N("st1"), N("cL"))]
    [] variant = "loadUnstored" ->
         [g EXCEPT !.ops = EraseOp(@, N("st1")), !.order = EraseOrd(@, N("st1"))]
    [] variant = "deadLoad" ->
         [g EXCEPT !.ops = (N("ld3") :> Op("load", <<N("aA1")>>, "", m, D)) @@ @,
                   !.order = InsertAfter(@, N("st1"), N("ld3")),
                   !.vtype = (N("ld3") :> ScalarType("f32")) @@ @]
    [] variant = "twoStores" ->
         [g EXCEPT !.ops = (N("st3") :> Op("store", <<N("ld1"), N("aB")>>, "", m, D)) @@ @,
                   !.order = InsertAfter(@, N("st1"), N("st3"))]
    [] variant = "dstBlockArg" ->
         [g EXCEPT !.ops = (N("st1") :> Op("store", <<N("ld1"), B>>, "", m, D)) @@
                           (N("s") :> Op("stick", <<B, N("aR")>>, l2, <<>>, <<>>)) @@
                           EraseOp(@, N("aB")),
                   !.order = EraseOrd(@, N("aB")),
                   !.vtype = (B :> g.vtype[N("aB")]) @@ @]
    [] variant = "dstView" ->
         [g EXCEPT !.ops = (N("aB0") :> alloc) @@
                           (N("aB") :> Op("view", <<N("aB0")>>, "", <<>>, <<>>)) @@ @,
                   !.order = <<N("aB0")>> \o @,
                   !.vtype = (N("aB0") :> g.vtype[N("aB")]) @@ @]
    [] variant = "dstOtherUser" ->
         [g EXCEPT !.ops = (N("cB") :> use(N("aB"))) @@ @,
                   !.order = InsertAfter(@, N("st1"), N("cB"))]
    [] variant = "twoSticks" ->
         [g EXCEPT !.ops = (N("aR2") :> alloc) @@
                           (N("s2") :> Op("stick", <<N("aB"), N("aR2")>>, l2, <<>>, <<>>)) @@
                           (N("c2") :> use(N("aR2"))) @@ @,
                   !.order = @ \o <<N("aR2"), N("s2"), N("c2")>>,
                   !.vtype = (N("aR2") :> g.vtype[N("aR")]) @@ @]
    [] variant = "noStick" ->
         [g EXCEPT !.ops = EraseOp(@, N("s")), !.order = EraseOrd(@, N("s"))]
    [] variant = "constStore" ->
         [g EXCEPT !.ops = (N("k") :> Op("const", <<>>, "", <<>>, <<>>)) @@
                           (N("st0") :> Op("store", <<N("k"), N("aB")>>, "", m, D)) @@ @,
                   !.order = InsertAfter(InsertAfter(@, N("aB"), N("k")), N("k"), N("st0")),
                   !.vtype = (N("k") :> ScalarType("f32")) @@ @]
    [] variant = "outUnused" ->
         [g EXCEPT !.ops = EraseOp(@, N("c")), !.order = EraseOrd(@, N("c"))]
    [] variant = "dimIndexLate" ->
         [g EXCEPT !.ops = (N("k0") :> Op("const", <<>>, "", <<>>, <<>>)) @@
                           (N("dimX") :> Op("dim", <<N("argX1"), N("k0")>>, "", <<>>, <<>>)) @@ @,
                   !.order = InsertAfter(@, N("st1"), N("k0")),
                   !.vtype = (N("k0") :> ScalarType("index")) @@ @]
    [] OTHER -> g

ChainVariantGraphs ==
  { ChainVariantGraph(p[1], p[2], p[3]) :
      p \in { q \in ChainTags \X ChainTags \X ChainVariants : Rank(q[2]) = Rank(q[1]) } }

InitGraphs == RoundTripGraphs \cup ChainGraphs \cup ChainVariantGraphs

(***************************************************************************)
(* The rewrite patterns.  A pattern applied to operation x yields the set  *)
(* of its possible results on the current function: the iteration order of *)
(* a use list is not part of the state, so a loop that stops at the first  *)
(* matching user yields one result per user it may stop at.                *)
(*   outcome "rewritten" = success(), "declined" = failure(),              *)
(*           "aborted"   = std::optional::value() on an absent layout      *)
(***************************************************************************)
Declined ==
  [outcome |-> "declined", ops |-> ops, order |-> order, vtype |-> vtype,
   nextId |-> nextId, removable |-> {}, replaced |-> <<>>, by |-> <<>>, via |-> <<>>]

Aborted == [Declined EXCEPT !.outcome = "aborted"]

Rewritten(o, ord, replaced, by, via) ==
  [outcome |-> "rewritten", ops |-> o, order |-> ord, vtype |-> vtype,
   nextId |-> nextId, removable |-> {}, replaced |-> replaced, by |-> by, via |-> via]

getX(x) == ops[x].opnds[1]

getOut(x) == ops[x].opnds[2]

OpsOfKind(kind) == { x \in DOMAIN ops : ops[x].kind = kind }

\* Remove unstick if there is no use of its second operand except itself.
UnstickRemovalPattern_matchAndRewrite(unstickOp) ==
  IF ~hasOneUse(ops, getOut(unstickOp))
  THEN {Declined}
  ELSE {Rewritten(EraseOp(ops, unstickOp), EraseOrd(order, unstickOp), <<>>, <<>>, <<>>)}

\* Remove stick if there is no use of its second operand except itself.
StickRemovalPattern_matchAndRewrite(stickOp) ==
  IF ~hasOneUse(ops, getOut(stickOp))
  THEN {Declined}
  ELSE {Rewritten(EraseOp(ops, stickOp), EraseOrd(order, stickOp), <<>>, <<>>, <<>>)}

\* the unstick users of value v the search loop may stop at
UnstickBefore(v, userOp, before) ==
  /\ userOp \in OpsOfKind("unstick")
  /\ getOut(userOp) = v
  /\ isBeforeInBlock(order, userOp, before)

\* a comparison that ignores the layouts
LayoutsMatchAlways(stickLayout, unstickLayout) == TRUE

LayoutsMatch(stickLayout, unstickLayout) ==
  /\ stickLayout # "" /\ unstickLayout # ""
  /\ stickLayout = unstickLayout

UnstickStickRemovalPattern_matchAndRewrite(stickOp) ==
  LET stickInput == getX(stickOp)
      stickLayout == ops[stickOp].layout
      found == { u \in Users(ops, stickInput) : UnstickBefore(stickInput, u, stickOp) }
  IN
  IF isBlockArg(ops, stickInput) THEN {Declined}
  ELSE IF found = {} THEN {Declined}
  ELSE { IF ~LayoutsMatch(stickLayout, ops[unstickOp].layout)
         THEN Declined
         ELSE Rewritten(EraseOp(replaceAllUsesWith(ops, getOut(stickOp), getX(unstickOp)),
                                stickOp),
                        EraseOrd(order, stickOp), getOut(stickOp), getX(unstickOp),
                        unstickOp) :
           unstickOp \in found }

\* a comparison that accepts dynamic shapes
ShapesMatchDynamic(stickResType, unstickInputType) ==
  stickResType.shape = unstickInputType.shape

ShapesMatch(stickResType, unstickInputType) ==
  /\ hasStaticShape(stickResType)
  /\ stickResType.shape = unstickInputType.shape

StickViewUnstickRemovalPattern_matchAndRewrite(stickOp) ==
  LET stickInput == getX(stickOp)
      stickLayout == ops[stickOp].layout
      viewOp == stickInput
      viewSource == ops[viewOp].opnds[1]
      unsticks == Users(ops, viewSource) \cap OpsOfKind("unstick")
      found == { u \in unsticks :
                   /\ ops[u].layout \notin {"", LAYOUT_NCHW}
                   /\ UnstickBefore(viewSource, u, viewOp) }
      stickRes == getOut(stickOp)
      rewrite(unstickOp) ==
        LET unstickInput == getX(unstickOp)
            o1 == replaceAllUsesWith(EraseOp(ops, stickOp), stickRes, unstickInput)
            dangling == use_empty(o1, viewOp)
        IN IF ~ShapesMatch(vtype[stickRes], vtype[unstickInput])
           THEN Declined
           ELSE Rewritten(IF dangling THEN EraseOp(o1, viewOp) ELSE o1,
                          IF dangling THEN EraseOrd(EraseOrd(order, stickOp), viewOp)
                          ELSE EraseOrd(order, stickOp),
                          stickRes, unstickInput, unstickOp)
  IN
  IF stickLayout = "" THEN {Aborted}
  ELSE IF stickLayout = LAYOUT_NCHW THEN {Declined}
  ELSE IF isBlockArg(ops, stickInput) THEN {Declined}
  ELSE IF hasNonIdentityLayout(vtype[stickInput]) THEN {Declined}
  ELSE IF ops[viewOp].kind # "view" THEN {Declined}
  ELSE (IF \E u \in unsticks : ops[u].layout = "" THEN {Aborted} ELSE {}) \cup
       { rewrite(u) : u \in found } \cup
       (IF found = {} /\ \A u \in unsticks : ops[u].layout # "" THEN {Declined} ELSE {})

(***************************************************************************)
(* UnstickLoadStoreStickRemovalPattern: the matching helpers.              *)
(***************************************************************************)
\* Users of MemRef must be StoreOp and StickOp.
matchMultipleStoreSingleStick(memRef) ==
  /\ ~isBlockArg(ops, memRef)
  /\ \A u \in Users(ops, memRef) : ops[u].kind \in {"store", "stick"}
  /\ Cardinality(Users(ops, memRef) \cap OpsOfKind("stick")) = 1
  /\ Users(ops, memRef) \cap OpsOfKind("store") # {}

\* Users of MemRef must be LoadOp and UnstickOp.
matchMultipleLoadSingleUnstick(memRef) ==
  /\ ~isBlockArg(ops, memRef)
  /\ \A u \in Users(ops, memRef) : ops[u].kind \in {"load", "unstick"}
  /\ Cardinality(Users(ops, memRef) \cap OpsOfKind("unstick")) = 1
  /\ Users(ops, memRef) \cap OpsOfKind("load") # {}

\* Check this sequence: unstick -> load -> store -> stick.
matchUnstickLoadStoreStick(storeOp) ==
  LET destMemref == ops[storeOp].opnds[2]
      storeValue == ops[storeOp].opnds[1]
  IN /\ ~isBlockArg(ops, destMemref)
     /\ ops[destMemref].kind = "alloc"
     /\ matchMultipleStoreSingleStick(destMemref)
     /\ ~isBlockArg(ops, storeValue)
     /\ ops[storeValue].kind = "load"
     /\ matchMultipleLoadSingleUnstick(ops[storeValue].opnds[1])

\* Collect affine.load operations that connect to zlow.unstick.
matchAndCollectAffineLoad(unstickOp, loadMemref) ==
  LET users == Users(ops, loadMemref) \ {unstickOp}
  IN [ok |-> users # {} /\ \A u \in users : ops[u].kind = "load", loadOps |-> users]

\* a collection that does not look at the other stores into the destinations
matchAndCollectAffineStoreOwn(loadOps) ==
  LET users == UNION { Users(ops, loadOp) \ {loadOp} : loadOp \in loadOps }
  IN [ok |-> /\ \A u \in users : ops[u].kind = "store" /\ matchUnstickLoadStoreStick(u)
             /\ users # {},
      storeOps |-> users]

\* a collection that keeps one store for each loaded value
matchAndCollectAffineStoreSingle(loadOps) ==
  LET stores(loadOp) == Users(ops, loadOp) \cap OpsOfKind("store")
      users == { CHOOSE st \in stores(loadOp) : TRUE :
                   loadOp \in { ld \in loadOps : stores(ld) # {} } }
  IN [ok |-> /\ users # {} /\ \A u \in users : matchUnstickLoadStoreStick(u)
             /\ \A ld \in loadOps : Users(ops, ld) \subseteq OpsOfKind("store"),
      storeOps |-> users]

\* a collection that skips the users of a loaded value that are not stores
matchAndCollectAffineStoreSkipping(loadOps) ==
  LET users == UNION { Users(ops, loadOp) \cap OpsOfKind("store") : loadOp \in loadOps }
  IN [ok |-> users # {} /\ \A u \in users : matchUnstickLoadStoreStick(u),
      storeOps |-> users]

\* Collect affine.store operations that connect to affine.load.
matchAndCollectAffineStore(loadOps) ==
  LET users == UNION { Users(ops, loadOp) \ {loadOp} : loadOp \in loadOps }
      others == UNION { (Users(ops, ops[storeOp].opnds[2]) \cap OpsOfKind("store")) \ users :
                          storeOp \in users }
  IN [ok |-> /\ \A u \in users : ops[u].kind = "store" /\ matchUnstickLoadStoreStick(u)
             /\ \A otherStoreOp \in others : matchUnstickLoadStoreStick(otherStoreOp)
             /\ users # {},
      storeOps |-> users]

\* Collect zlow.stick operations that connect to affine.store.
\* StoreOpStickOpMap is the function stickOf.
matchAndCollectStickOp(storeOps) ==
  LET others(storeOp) == Users(ops, ops[storeOp].opnds[2]) \ {storeOp}
      sticks(storeOp) == others(storeOp) \cap OpsOfKind("stick")
      all == UNION { sticks(storeOp) : storeOp \in storeOps }
  IN [absent |-> \E st \in all : ops[st].layout = "",
      ok |-> /\ \A storeOp \in storeOps :
                  /\ \A u \in others(storeOp) : ops[u].kind \in {"store", "stick"}
                  /\ \A st \in sticks(storeOp) :
                         ops[st].layout \notin {LAYOUT_1D, LAYOUT_2DS}
                  /\ Cardinality(sticks(storeOp)) <= 1
             /\ storeOps # {},
      stickOps |-> all,
      stickOf |-> [storeOp \in storeOps |->
                     IF sticks(storeOp) = {} THEN <<>>
                     ELSE CHOOSE st \in sticks(storeOp) : TRUE]]

(***************************************************************************)
(* UnstickLoadStoreStickRemovalPattern: the rewriting.  g is the function  *)
(* being rewritten: [ops, order, vtype, nextId].                           *)
(***************************************************************************)
\* a composition with the permutation NHWC -> NCHW instead
composeInversePermutation(nchw, oldMap) == IF nchw THEN PermuteInv(oldMap) ELSE oldMap

\* permuteMap.compose(oldMap) for the permutation {0, 2, 3, 1}
composePermutation(nchw, oldMap) == IF nchw THEN Permute(oldMap) ELSE oldMap

\* the first operation of a set in block order
Earliest(ord, xs) == CHOOSE x \in xs : \A y \in xs : IndexOf(ord, x) <= IndexOf(ord, y)

\* Rewrite AffineLoadOp to use stickified Memref directly.
rewriteLoadOp(g, loadOp, stickifiedMemRef, unstickNCHWLayout, stickifiedElementType, cpuElementType) ==
  LET clonedOp == <<"load", g.nextId>>
      dummyConverter == <<"dummy", g.nextId + 1>>
      old == g.ops[loadOp]
      o1 == g.ops @@
            (clonedOp :> Op("load", <<stickifiedMemRef>>, "",
                            composePermutation(unstickNCHWLayout, old.map), old.dom)) @@
            (dummyConverter :> Op("dummy", <<clonedOp>>, "", <<>>, <<>>))
  IN [ops |-> EraseOp(replaceAllUsesWith(o1, loadOp, dummyConverter), loadOp),
      order |-> EraseOrd(InsertAfter(InsertAfter(g.order, loadOp, clonedOp), clonedOp,
                                     dummyConverter), loadOp),
      vtype |-> (clonedOp :> ScalarType(stickifiedElementType)) @@
                (dummyConverter :> ScalarType(cpuElementType)) @@ g.vtype,
      nextId |-> g.nextId + 2]

RECURSIVE rewriteLoadOps(_, _, _, _, _, _)
rewriteLoadOps(g, loadOps, stickifiedMemRef, unstickNCHWLayout, stickifiedElementType, cpuElementType) ==
  IF loadOps = {} THEN g
  ELSE LET loadOp == Earliest(g.order, loadOps)
       IN rewriteLoadOps(rewriteLoadOp(g, loadOp, stickifiedMemRef, unstickNCHWLayout,
                                       stickifiedElementType, cpuElementType),
                         loadOps \ {loadOp}, stickifiedMemRef, unstickNCHWLayout,
                         stickifiedElementType, cpuElementType)

\* Move AllocOp's operands first: the order and the operation just moved
\* (<<>> when none was moved) after operands i.. of stickAllocOp are handled.
RECURSIVE moveAllocOperands(_, _, _, _, _, _)
moveAllocOperands(o, ord, oprds, i, storeAllocOp, justMovedOp) ==
  IF i > Len(oprds) THEN [order |-> ord, justMovedOp |-> justMovedOp]
  ELSE LET opToMove == oprds[i]
       IN IF isBlockArg(o, opToMove) \/ isBeforeInBlock(ord, opToMove, storeAllocOp)
          THEN moveAllocOperands(o, ord, oprds, i + 1, storeAllocOp, justMovedOp)
          ELSE moveAllocOperands(o,
                 moveAfter(ord, opToMove,
                           IF justMovedOp # <<>> THEN justMovedOp ELSE storeAllocOp),
                 oprds, i + 1, storeAllocOp, opToMove)

\* Rewrite AffineStoreOp to use stickified Memref directly.
rewriteStoreOp(g, storeOp, myStickOp, stickifiedElementType) ==
  LET storeMemref == g.ops[storeOp].opnds[2]
      storeValue == g.ops[storeOp].opnds[1]
      stickMemref == g.ops[myStickOp].opnds[2]
      stickNCHWLayout == g.ops[myStickOp].layout = LAYOUT_NCHW
      storeAllocOp == storeMemref
      stickAllocOp == stickMemref
      m == moveAllocOperands(g.ops, g.order, g.ops[stickAllocOp].opnds, 1, storeAllocOp,
                             <<>>)
      ord1 == moveAfter(m.order, stickAllocOp,
                        IF m.justMovedOp # <<>> THEN m.justMovedOp ELSE storeAllocOp)
      dummyConverter == <<"dummy", g.nextId>>
      clonedOp == <<"store", g.nextId + 1>>
      old == g.ops[storeOp]
      o1 == g.ops @@
            (dummyConverter :> Op("dummy", <<storeValue>>, "", <<>>, <<>>)) @@
            (clonedOp :> Op("store", <<dummyConverter, stickMemref>>, "",
                            composePermutation(stickNCHWLayout, old.map), old.dom))
  IN [ops |-> EraseOp(o1, storeOp),
      order |-> EraseOrd(InsertAfter(InsertAfter(ord1, storeOp, dummyConverter),
                                     dummyConverter, clonedOp), storeOp),
      vtype |-> (dummyConverter :> ScalarType(stickifiedElementType)) @@ g.vtype,
      nextId |-> g.nextId + 2]

RECURSIVE rewriteStoreOps(_, _, _, _)
rewriteStoreOps(g, storeOps, stickOf, stickifiedElementType) ==
  IF storeOps = {} THEN g
  ELSE LET storeOp == Earliest(g.order, storeOps)
       IN rewriteStoreOps(rewriteStoreOp(g, storeOp, stickOf[storeOp],
                                         stickifiedElementType),
                          storeOps \ {storeOp}, stickOf, stickifiedElementType)

\* a test that lets every layout through
UnsupportedLayoutNone(unstickLayout) == FALSE

UnsupportedLayout(unstickLayout) == unstickLayout \in {LAYOUT_1D, LAYOUT_2DS}

UnstickLoadStoreStickRemovalPattern_matchAndRewrite(unstickOp) ==
  LET stickifiedMemRef == getX(unstickOp)
      cpuMemRef == getOut(unstickOp)
      unstickLayout == ops[unstickOp].layout
      unstickNCHWLayout == unstickLayout = LAYOUT_NCHW
      stickifiedElementType == vtype[stickifiedMemRef].elem
      cpuElementType == vtype[cpuMemRef].elem
      loads == matchAndCollectAffineLoad(unstickOp, cpuMemRef)
      stores == matchAndCollectAffineStore(loads.loadOps)
      sticks == matchAndCollectStickOp(stores.storeOps)
      g0 == [ops |-> ops, order |-> order, vtype |-> vtype, nextId |-> nextId]
      g1 == rewriteLoadOps(g0, loads.loadOps, stickifiedMemRef, unstickNCHWLayout,
                           stickifiedElementType, cpuElementType)
      g2 == rewriteStoreOps(g1, stores.storeOps, sticks.stickOf, stickifiedElementType)
  IN
  IF unstickLayout = "" THEN {Aborted}
  ELSE IF ~hasNonIdentityLayout(vtype[stickifiedMemRef]) THEN {Declined}
  ELSE IF hasNonIdentityLayout(vtype[cpuMemRef]) THEN {Declined}
  ELSE IF UnsupportedLayout(unstickLayout) THEN {Declined}
  ELSE IF ~loads.ok THEN {Declined}
  ELSE IF ~stores.ok THEN {Declined}
  ELSE IF sticks.absent THEN {Aborted}
  ELSE IF ~sticks.ok THEN {Declined}
  ELSE IF \E st \in sticks.stickOps : isBlockArg(ops, getOut(st)) THEN {Aborted}
  ELSE {[outcome |-> "rewritten",
         ops |-> EraseOp(g2.ops, unstickOp),
         order |-> EraseOrd(g2.order, unstickOp),
         vtype |-> g2.vtype,
         nextId |-> g2.nextId,
         removable |-> sticks.stickOps,
         replaced |-> <<>>, by |-> <<>>, via |-> <<>>]}

(***************************************************************************)
(* ZLowRewritePass: the greedy application of the patterns, then the       *)
(* removal of the stick operations marked removable.                       *)
(***************************************************************************)
Apply(rule, x, results) ==
  /\ phase = "rewriting"
  /\ \E r \in results :
       /\ ops' = r.ops
       /\ order' = r.order
       /\ vtype' = r.vtype
       /\ nextId' = r.nextId
       /\ removableStickOps' = removableStickOps \cup r.removable
       /\ phase' = IF r.outcome = "aborted" THEN "aborted" ELSE phase
       /\ zlast' = [rule |-> rule, op |-> x, outcome |-> r.outcome,
                    replaced |-> r.replaced, by |-> r.by, via |-> r.via]
  /\ UNCHANGED <<zorig, zfirst, loopVars, asyncVars, rnnVars, convVars>>

StickRemovalPattern ==
  \E x \in OpsOfKind("stick") :
    Apply("StickRemovalPattern", x, StickRemovalPattern_matchAndRewrite(x))

UnstickRemovalPattern ==
  \E x \in OpsOfKind("unstick") :
    Apply("UnstickRemovalPattern", x, UnstickRemovalPattern_matchAndRewrite(x))

UnstickStickRemovalPattern ==
  \E x \in OpsOfKind("stick") :
    Apply("UnstickStickRemovalPattern", x, UnstickStickRemovalPattern_matchAndRewrite(x))

StickViewUnstickRemovalPattern ==
  \E x \in OpsOfKind("stick") :
    Apply("StickViewUnstickRemovalPattern", x,
          StickViewUnstickRemovalPattern_matchAndRewrite(x))

UnstickLoadStoreStickRemovalPattern ==
  \E x \in OpsOfKind("unstick") :
    Apply("UnstickLoadStoreStickRemovalPattern", x,
          UnstickLoadStoreStickRemovalPattern_matchAndRewrite(x))

\* applyPatternsAndFoldGreedily has converged: every pattern declines everywhere
Converged ==
  /\ \A x \in OpsOfKind("stick") :
       /\ StickRemovalPattern_matchAndRewrite(x) = {Declined}
       /\ UnstickStickRemovalPattern_matchAndRewrite(x) = {Declined}
       /\ StickViewUnstickRemovalPattern_matchAndRewrite(x) = {Declined}
  /\ \A x \in OpsOfKind("unstick") :
       /\ UnstickRemovalPattern_matchAndRewrite(x) = {Declined}
       /\ UnstickLoadStoreStickRemovalPattern_matchAndRewrite(x) = {Declined}

\* Remove ZLowStickOp that were marked "removable".  A marked operation that
\* a pattern already erased is a dangling handle.
runOnOperation ==
  /\ phase = "rewriting"
  /\ Converged
  /\ IF removableStickOps \subseteq DOMAIN ops
     THEN /\ ops' = [u \in DOMAIN ops \ removableStickOps |-> ops[u]]
          /\ order' = Without(order, removableStickOps)
          /\ phase' = "done"
     ELSE /\ UNCHANGED <<ops, order>>
          /\ phase' = "aborted"
  /\ zlast' = [NoRewrite EXCEPT !.rule = "runOnOperation"]
  /\ UNCHANGED <<vtype, removableStickOps, nextId, zorig, zfirst, loopVars, asyncVars,
                 rnnVars, convVars>>

\* if (failed(applyPatternsAndFoldGreedily(...))) return signalPassFailure();
\* The driver fails when it stops before the fixpoint is reached; its
\* iteration limit counts sweeps over the function, which are not part of
\* the state, so it may stop in any state that has not converged.
signalPassFailure ==
  /\ phase = "rewriting"
  /\ ~Converged
  /\ phase' = "failed"
  /\ zlast' = [NoRewrite EXCEPT !.rule = "signalPassFailure"]
  /\ UNCHANGED <<ops, order, vtype, removableStickOps, nextId, zorig, zfirst, loopVars,
                 asyncVars, rnnVars, convVars>>

\* the trip count pattern is not part of this pass
LoopIdle ==
  /\ loopOperands = <<>> /\ returnOperands = <<>> /\ defs = <<>> /\ bodyShape = "none"
  /\ nCreated = 0 /\ attempts = 0 /\ last = NoAttempt /\ orig = <<>>

ZLowInit ==
  \E g \in InitGraphs :
    /\ LoopIdle
    /\ AsyncIdle
    /\ RnnIdle
    /\ ConvIdle
    /\ ops = g.ops
    /\ order = g.order
    /\ vtype = g.vtype
    /\ removableStickOps = {}
    /\ phase = "rewriting"
    /\ nextId = 1
    /\ zlast = NoRewrite
    /\ zorig = g
    /\ zfirst = <<>>

ZLowNext ==
  \/ StickRemovalPattern
  \/ UnstickRemovalPattern
  \/ UnstickStickRemovalPattern
  \/ StickViewUnstickRemovalPattern
  \/ UnstickLoadStoreStickRemovalPattern
  \/ runOnOperation
  \/ signalPassFailure

SpecZLow == ZLowInit /\ [][ZLowNext]_vars

\* The pass run once more on the function as it was: the result of the run
\* that has finished is kept in zfirst, and the patterns are applied again,
\* in whatever order, to the original function.
Rerun ==
  /\ phase = "done"
  /\ zfirst = <<>>
  /\ zfirst' = [ops |-> ops, order |-> order]
  /\ ops' = zorig.ops
  /\ order' = zorig.order
  /\ vtype' = zorig.vtype
  /\ removableStickOps' = {}
  /\ phase' = "rewriting"
  /\ nextId' = 1
  /\ zlast' = NoRewrite
  /\ UNCHANGED <<zorig, loopVars, asyncVars, rnnVars, convVars>>

TwoRunsNext ==
  \/ StickRemovalPattern
  \/ UnstickRemovalPattern
  \/ UnstickStickRemovalPattern
  \/ StickViewUnstickRemovalPattern
  \/ UnstickLoadStoreStickRemovalPattern
  \/ runOnOperation
  \/ signalPassFailure
  \/ Rerun

SpecTwoRuns == ZLowInit /\ [][TwoRunsNext]_vars

(***************************************************************************)
(* What a function computes.  Buffers hold one value per element position; *)
(* the elements of a function argument are the symbolic inputs, those of a *)
(* fresh allocation are undefined.  zlow.unstick widens an element to the  *)
(* CPU format and zlow.stick narrows it to the accelerator format; both go *)
(* through the layout's index map (NCHW <-> NHWC).  zlow.dummy only adapts *)
(* the type.  Observe is what the "use" operations read, in block order.   *)
(***************************************************************************)
Cells(shape) ==
  LET n == Len(shape)
      top == IF n = 0 THEN 0 ELSE CHOOSE d \in { shape[k] : k \in 1..n } :
                                    \A k \in 1..n : shape[k] <= d
  IN { c \in [1..n -> 1..top] : \A k \in 1..n : c[k] <= shape[k] }

Undefined == [fmt |-> "undef"]

Input(b, c) == [fmt |-> "f16", buf |-> b, cell |-> c]

\* f16 -> f32
Widen(v) == [fmt |-> "f32", of |-> v]

\* f32 -> f16: exact on a widened f16 value, rounded otherwise
Narrow(v) == IF v.fmt = "f32" /\ v.of.fmt # "f32" THEN v.of ELSE [fmt |-> "f16r", of |-> v]

\* the element of the stickified buffer holding CPU element c, and back
toStickified(layout, c) == IF layout = LAYOUT_NCHW THEN Permute(c) ELSE c

fromStickified(layout, c) == IF layout = LAYOUT_NCHW THEN PermuteInv(c) ELSE c

\* the size a dynamic dimension has when the function runs
RuntimeShape(shape) == [k \in 1..Len(shape) |-> IF shape[k] < 0 THEN 1 ELSE shape[k]]

\* the buffer a value is a view of (ViewLikeOpInterface::getViewSource)
RECURSIVE ViewRoot(_, _)
ViewRoot(o, b) ==
  IF ~isBlockArg(o, b) /\ o[b].kind = "view" THEN ViewRoot(o, o[b].opnds[1]) ELSE b

\* row-major position of element c in a buffer of the given shape, and back
Linear(shape, c) ==
  LET F[k \in 0..Len(shape)] == IF k = 0 THEN 0 ELSE F[k - 1] * shape[k] + (c[k] - 1)
  IN F[Len(shape)]

CellAt(shape, i) ==
  LET n == Len(shape)
      S[k \in 1..(n + 1)] == IF k = n + 1 THEN 1 ELSE S[k + 1] * shape[k]
  IN [k \in 1..n |-> ((i \div S[k + 1]) % shape[k]) + 1]

\* the elements of buffer b, read through the views it is made of
ReadBuf(o, ty, st, b) ==
  LET r == ViewRoot(o, b)
      sb == RuntimeShape(ty[b].shape)
  IN IF r = b THEN st.mem[b]
     ELSE [c \in Cells(sb) |-> st.mem[r][CellAt(RuntimeShape(ty[r].shape), Linear(sb, c))]]

\* the memory after the elements f of buffer b are written
WriteBuf(o, ty, st, b, f) ==
  LET r == ViewRoot(o, b)
      sb == RuntimeShape(ty[b].shape)
  IN IF r = b THEN [st EXCEPT !.mem[b] = f]
     ELSE [st EXCEPT !.mem[r] =
             [c \in DOMAIN st.mem[r] |-> f[CellAt(sb, Linear(RuntimeShape(ty[r].shape), c))]]]

ExecOp(o, ty, st, x) ==
  LET op == o[x]
      a == op.opnds
      src == ReadBuf(o, ty, st, a[1])
      dstCells == Cells(RuntimeShape(ty[a[2]].shape))
  IN
  CASE op.kind = "unstick" ->
         WriteBuf(o, ty, st, a[2],
                  [c \in dstCells |->
                     Widen(src[toStickified(op.layout, c)])])
    [] op.kind = "stick" ->
         WriteBuf(o, ty, st, a[2],
                  [c \in dstCells |->
                     Narrow(src[fromStickified(op.layout, c)])])
    [] op.kind = "load" ->
         [st EXCEPT !.val = (x :> [iv \in Cells(op.dom) |-> src[Sel(op.map, iv)]])
                            @@ st.val]
    [] op.kind = "const" ->
         [st EXCEPT !.val = (x :> Widen(Input(x, <<>>))) @@ st.val]
    [] op.kind = "dummy" ->
         [st EXCEPT !.val = (x :> st.val[a[1]]) @@ st.val]
    [] op.kind = "store" ->
         WriteBuf(o, ty, st, a[2],
                  LET dst == ReadBuf(o, ty, st, a[2]) IN
                  [c \in DOMAIN dst |->
                     IF \E iv \in Cells(op.dom) : Sel(op.map, iv) = c
                     THEN IF o[a[1]].kind = "const" THEN st.val[a[1]]
                          ELSE st.val[a[1]][CHOOSE iv \in Cells(op.dom) : Sel(op.map, iv) = c]
                     ELSE dst[c]])
    [] op.kind = "use" ->
         [st EXCEPT !.obs = Append(st.obs, <<x, IF a[1] \in DOMAIN st.val THEN st.val[a[1]]
                                                 ELSE ReadBuf(o, ty, st, a[1])>>)]
    [] OTHER -> st

RECURSIVE ExecFrom(_, _, _, _, _)
ExecFrom(o, ord, ty, st, i) ==
  IF i > Len(ord) THEN st
  ELSE ExecFrom(o, ord, ty, ExecOp(o, ty, st, ord[i]), i + 1)

Observe(o, ord, ty) ==
  LET buffers == { b \in DOMAIN ty : Len(ty[b].shape) > 0 /\ ViewRoot(o, b) = b }
      st0 == [mem |-> [b \in buffers |->
                         [c \in Cells(RuntimeShape(ty[b].shape)) |->
                            IF isBlockArg(o, b) THEN Input(b, c) ELSE Undefined]],
              val |-> <<>>,
              obs |-> <<>>]
  IN ExecFrom(o, ord, ty, st0, 1).obs

(***************************************************************************)
(* Claims about the ZLow patterns, checked under SpecZLow.                 *)
(***************************************************************************)
\* the function holds a decode -> copy loop -> encode chain
IsChainGraph == phase # "idle" /\ <<"ld1", 0>> \in DOMAIN zorig.ops

\* C6: once the chain eliminator has rewritten a chain and the deferred
\* encodes have been erased, every consumer of the encode's original result
\* observes the values the original decode / copy / encode sequence produced.
C6_ChainEliminationPreservesValues ==
  (IsChainGraph /\ phase = "done" /\ removableStickOps # {}) =>
    Observe(ops, order, vtype) = Observe(zorig.ops, zorig.order, zorig.vtype)

\* C7: whenever UnstickStickRemovalPattern fires, the decode's source that
\* replaces the encode's result has the type and shape of the encode's result.
C7_ReplacementHasSameType ==
  (zlast.rule = "UnstickStickRemovalPattern" /\ zlast.outcome = "rewritten") =>
    vtype[zlast.by] = vtype[zlast.replaced]

\* the decodes of value v that precede operation x
DecodesBefore(v, x) ==
  { u \in OpsOfKind("unstick") : getOut(u) = v /\ isBeforeInBlock(order, u, x) }

\* C8: UnstickStickRemovalPattern rewrites an encode only if its input is not
\* a block argument, a decode into that value precedes the encode, and both
\* carry a layout tag and the tags are equal; with no such preceding decode,
\* or on a tag mismatch, it declines and leaves the function as it is.
C8_UnstickStickOnlyIf ==
  [][zlast'.rule = "UnstickStickRemovalPattern" =>
       LET stickOp == zlast'.op
           unstickOp == zlast'.via
           matching == { u \in DecodesBefore(getX(stickOp), stickOp) :
                           /\ ops[u].layout # "" /\ ops[stickOp].layout # ""
                           /\ ops[u].layout = ops[stickOp].layout }
       IN /\ zlast'.outcome = "rewritten" =>
               /\ ~isBlockArg(ops, getX(stickOp))
               /\ unstickOp \in matching
          /\ matching = {} =>
               /\ zlast'.outcome = "declined"
               /\ ops' = ops /\ order' = order]_vars

C8_Witness ==
  /\ zlast.rule = "UnstickStickRemovalPattern" /\ zlast.outcome = "rewritten"
  /\ zlast.op \notin DOMAIN ops
  /\ zlast.via \in DOMAIN ops
  /\ zorig.ops[zlast.op].layout = ops[zlast.via].layout

\* C9: StickViewUnstickRemovalPattern rewrites an encode only when the decode
\* found through the view carries the same layout tag as the encode.
C9_StickViewRequiresEqualTags ==
  [][(zlast'.rule = "StickViewUnstickRemovalPattern" /\ zlast'.outcome = "rewritten") =>
       ops[zlast'.via].layout = ops[zlast'.op].layout]_vars

C11_DeadConversionRemoval ==
  [][zlast'.rule \in {"UnstickRemovalPattern", "StickRemovalPattern"} =>
       LET x == zlast'.op
           onlyItself == Uses(ops, getOut(x)) = {<<x, 2>>}
       IN /\ zlast'.outcome = "rewritten" <=> onlyItself
          /\ onlyItself =>
               /\ ops' = EraseOp(ops, x) /\ order' = EraseOrd(order, x)
               /\ Observe(ops', order', vtype') = Observe(ops, order, vtype)
          /\ ~onlyItself =>
               /\ zlast'.outcome = "declined"
               /\ ops' = ops /\ order' = order]_vars

C11_Witness ==
  /\ zlast.rule \in {"UnstickRemovalPattern", "StickRemovalPattern"}
  /\ zlast.outcome = "rewritten"
  /\ zlast.op \notin DOMAIN ops
  /\ \E c \in OpsOfKind("use") : ~use_empty(ops, ops[c].opnds[1])

\* the encodes a decode reaches: decode -> copy-read -> copy-write -> encode
ReachedSticks(x) ==
  { s \in OpsOfKind("stick") :
      \E ld \in Users(ops, getOut(x)) \cap OpsOfKind("load") :
        \E st \in Users(ops, ld) \cap OpsOfKind("store") :
          s \in Users(ops, ops[st].opnds[2]) }

C13_ChainShape ==
  [][(/\ zlast'.rule = "UnstickLoadStoreStickRemovalPattern"
      /\ zlast'.outcome = "rewritten") =>
       LET x == zlast'.op
           loadOps == Users(ops, getOut(x)) \ {x}
           storeOps == UNION { Users(ops, ld) : ld \in loadOps }
       IN /\ loadOps # {}
          /\ \A ld \in loadOps : ops[ld].kind = "load"
          /\ \A st \in storeOps : ops[st].kind = "store"
          /\ \A st \in storeOps :
               LET dst == ops[st].opnds[2]
               IN /\ ~isBlockArg(ops, dst)
                  /\ ops[dst].kind = "alloc"
                  /\ \A u \in Users(ops, dst) : ops[u].kind \in {"store", "stick"}
                  /\ Cardinality(Users(ops, dst) \cap OpsOfKind("stick")) = 1]_vars

C13_Witness ==
  /\ zlast.rule = "UnstickLoadStoreStickRemovalPattern"
  /\ zlast.outcome = "rewritten"
  /\ zlast.op \notin DOMAIN ops
  /\ removableStickOps # {}
  /\ \E ld \in OpsOfKind("load") : ops[ld].opnds[1] = zorig.ops[zlast.op].opnds[1]

\* C14: in every chain the chain eliminator rewrites, each copy-read's result
\* flows into exactly one copy-write.
C14_ExactlyOneCopyWrite ==
  [][(/\ zlast'.rule = "UnstickLoadStoreStickRemovalPattern"
      /\ zlast'.outcome = "rewritten") =>
       \A ld \in Users(ops, getOut(zlast'.op)) \ {zlast'.op} :
         Cardinality(Users(ops, ld) \cap OpsOfKind("store")) = 1]_vars

\* C14 (as the code has it): in every chain the chain eliminator rewrites, each
\* copy-read's result flows into copy-writes only, any number of them, at least
\* one copy-read's result flows into a copy-write, and every one of these
\* copy-writes is rewritten.
C14_OnlyCopyWrites ==
  [][(/\ zlast'.rule = "UnstickLoadStoreStickRemovalPattern"
      /\ zlast'.outcome = "rewritten") =>
       LET loadOps == Users(ops, getOut(zlast'.op)) \ {zlast'.op}
           storeOps == UNION { Users(ops, ld) : ld \in loadOps }
       IN /\ storeOps # {}
          /\ storeOps \subseteq OpsOfKind("store")
          /\ storeOps \cap DOMAIN ops' = {}
          /\ loadOps \cap DOMAIN ops' = {}]_vars

C14_Witness ==
  /\ zlast.rule = "UnstickLoadStoreStickRemovalPattern"
  /\ zlast.outcome = "rewritten"
  /\ \E ld \in DOMAIN zorig.ops :
       /\ zorig.ops[ld].kind = "load"
       /\ Cardinality(Users(zorig.ops, ld)) # 1
       /\ ld \notin DOMAIN ops

\* the copy-writes of the chain that starts at decode x
MatchedStores(x) ==
  { st \in OpsOfKind("store") :
      \E ld \in Users(ops, getOut(x)) \cap OpsOfKind("load") : ops[st].opnds[1] = ld }

\* store st writes a value that is not loaded from the destination of a decode
StrangeStore(st) ==
  LET v == ops[st].opnds[1]
  IN \/ isBlockArg(ops, v)
     \/ ops[v].kind # "load"
     \/ ~\E u \in OpsOfKind("unstick") : getOut(u) = ops[v].opnds[1]

\* C15: the chain eliminator declines, changing nothing, whenever a
\* destination buffer of a matched copy-write is also written by a store whose
\* value is not a copy-read from the destination of a decode (such as a store
\* of a zero-fill constant).
C15_MixedOriginRejected ==
  [][zlast'.rule = "UnstickLoadStoreStickRemovalPattern" =>
       LET x == zlast'.op
           mixed == \E st \in MatchedStores(x) :
                      \E other \in OpsOfKind("store") :
                        /\ ops[other].opnds[2] = ops[st].opnds[2]
                        /\ StrangeStore(other)
       IN (mixed /\ ops[x].layout # "") =>
            /\ zlast'.outcome = "declined"
            /\ ops' = ops /\ order' = order /\ vtype' = vtype
            /\ removableStickOps' = removableStickOps]_vars

C15_Witness ==
  /\ zlast.rule = "UnstickLoadStoreStickRemovalPattern"
  /\ zlast.outcome = "declined"
  /\ ops[zlast.op].layout \notin {"", LAYOUT_1D, LAYOUT_2DS}
  /\ \A s \in ReachedSticks(zlast.op) : ops[s].layout \notin {"", LAYOUT_1D, LAYOUT_2DS}
  /\ \E st \in MatchedStores(zlast.op) :
       \E other \in OpsOfKind("store") :
         /\ ops[other].opnds[2] = ops[st].opnds[2]
         /\ ops[ops[other].opnds[1]].kind = "const"

\* the index function of new is the permutation [0,2,3,1] of the result of
\* the index function of old
PermutedResult(new, old) ==
  /\ new.dom = old.dom
  /\ \A iv \in Cells(old.dom) : Sel(new.map, iv) = Permute(Sel(old.map, iv))

\* the index function of new is the index function of old applied to the
\* permutation [0,2,3,1] of the tuple
PermutedArgument(new, old) ==
  /\ new.dom = old.dom
  /\ \A iv \in Cells(old.dom) : Sel(new.map, iv) = Sel(old.map, Permute(iv))

\* C16: for the NCHW layout, the index function the chain eliminator installs
\* on a cloned copy-read or copy-write, applied to an index tuple, equals the
\* original index function applied to the permutation [0,2,3,1] of the tuple.
C16_IndexOfPermutedTuple ==
  [][(/\ zlast'.rule = "UnstickLoadStoreStickRemovalPattern"
      /\ zlast'.outcome = "rewritten") =>
       LET x == zlast'.op
           loadOps == Users(ops, getOut(x)) \ {x}
           cloned(kind) == { n \in DOMAIN ops' \ DOMAIN ops : ops'[n].kind = kind }
           nchwStores == { st \in MatchedStores(x) :
                             \E s \in Users(ops, ops[st].opnds[2]) :
                               ops[s].kind = "stick" /\ ops[s].layout = LAYOUT_NCHW }
       IN /\ ops[x].layout = LAYOUT_NCHW =>
               /\ \A ld \in loadOps : \E n \in cloned("load") : PermutedArgument(ops'[n], ops[ld])
               /\ \A n \in cloned("load") : \E ld \in loadOps : PermutedArgument(ops'[n], ops[ld])
          /\ \A st \in nchwStores : \E n \in cloned("store") : PermutedArgument(ops'[n], ops[st])
          /\ nchwStores = MatchedStores(x) =>
               \A n \in cloned("store") : \E st \in nchwStores : PermutedArgument(ops'[n], ops[st])]_vars

\* C16 (as the code has it): for the NCHW layout, the index function installed
\* on a cloned copy-read or copy-write, applied to an index tuple, equals the
\* permutation [0,2,3,1] of the original index function's result on the tuple:
\* the element (0, c, h, w) the original accessed is accessed as (0, h, w, c).
C16_PermutedIndex ==
  [][(/\ zlast'.rule = "UnstickLoadStoreStickRemovalPattern"
      /\ zlast'.outcome = "rewritten") =>
       LET x == zlast'.op
           loadOps == Users(ops, getOut(x)) \ {x}
           cloned(kind) == { n \in DOMAIN ops' \ DOMAIN ops : ops'[n].kind = kind }
           nchwStores == { st \in MatchedStores(x) :
                             \E s \in Users(ops, ops[st].opnds[2]) :
                               ops[s].kind = "stick" /\ ops[s].layout = LAYOUT_NCHW }
       IN /\ ops[x].layout = LAYOUT_NCHW =>
               /\ \A ld \in loadOps : \E n \in cloned("load") : PermutedResult(ops'[n], ops[ld])
               /\ \A n \in cloned("load") : \E ld \in loadOps : PermutedResult(ops'[n], ops[ld])
          /\ \A st \in nchwStores : \E n \in cloned("store") : PermutedResult(ops'[n], ops[st])
          /\ nchwStores = MatchedStores(x) =>
               \A n \in cloned("store") : \E st \in nchwStores : PermutedResult(ops'[n], ops[st])]_vars

C16_Witness ==
  /\ zlast.rule = "UnstickLoadStoreStickRemovalPattern"
  /\ zlast.outcome = "rewritten"
  /\ zorig.ops[zlast.op].layout = LAYOUT_NCHW
  /\ \E n \in OpsOfKind("load") \ DOMAIN zorig.ops :
       /\ ops[n].opnds[1] = zorig.ops[zlast.op].opnds[1]
       /\ \E ld \in DOMAIN zorig.ops :
            /\ zorig.ops[ld].kind = "load"
            /\ zorig.ops[ld].opnds[1] = zorig.ops[zlast.op].opnds[2]
            /\ zorig.ops[ld].map # ops[n].map
            /\ PermutedResult(ops[n], zorig.ops[ld])
            /\ ~PermutedArgument(ops[n], zorig.ops[ld])

\* the operations erased so far: operations of the function as it was before
\* the pass, or created by the rewriter, that are no longer in the function
ErasedOps ==
  { v \in DOMAIN zorig.ops \cup ({"load", "dummy", "store"} \X (1..(nextId - 1))) :
      v \notin DOMAIN ops }

\* no operation of o has an operand defined by an operation of erased
NoDanglingUse(o, erased) ==
  \A u \in DOMAIN o : \A i \in 1..Len(o[u].opnds) : o[u].opnds[i] \notin erased

\* C21: after every successful rewrite by a stick/unstick pattern and after
\* the removal of the marked sticks, no remaining operation has an operand
\* defined by an erased operation; every use of a stick's result that a
\* round-trip pattern replaced refers to the unstick's source; and the view
\* in between is erased only if it has no remaining use.
C21_NoDanglingUse ==
  [][/\ NoDanglingUse(ops', ErasedOps')
     /\ (/\ zlast'.outcome = "rewritten"
         /\ zlast'.rule \in {"UnstickStickRemovalPattern", "StickViewUnstickRemovalPattern"}) =>
          LET stickOp == zlast'.op
              unstickOp == zlast'.via
              viewOp == getX(stickOp)
          IN /\ stickOp \notin DOMAIN ops'
             /\ \A ui \in Uses(ops, getOut(stickOp)) :
                  ui[1] # stickOp =>
                    /\ ui[1] \in DOMAIN ops'
                    /\ ops'[ui[1]].opnds[ui[2]] = getX(unstickOp)
             /\ Uses(ops', getOut(stickOp)) = {}
             /\ zlast'.rule = "StickViewUnstickRemovalPattern" =>
                  (viewOp \notin DOMAIN ops' => Users(ops, viewOp) = {stickOp})]_vars

C21_Witness ==
  /\ zlast.rule = "StickViewUnstickRemovalPattern" /\ zlast.outcome = "rewritten"
  /\ <<"cv", 0>> \in DOMAIN ops
  /\ ops[<<"cv", 0>>].opnds[1] \in DOMAIN ops
  /\ zlast.op \in ErasedOps
  /\ \E ui \in Uses(ops, zlast.by) : ui \in Uses(zorig.ops, zlast.replaced)

\* the function in a form that does not depend on the names the rewriter
\* gives to the operations it creates: the operations in block order, an
\* operand being the position of its definition or a function argument
Canonical(o, ord) ==
  [i \in 1..Len(ord) |->
     [kind |-> o[ord[i]].kind, layout |-> o[ord[i]].layout, map |-> o[ord[i]].map,
      dom |-> o[ord[i]].dom,
      opnds |-> [k \in 1..Len(o[ord[i]].opnds) |->
                   LET v == o[ord[i]].opnds[k]
                   IN IF v \in DOMAIN o THEN <<"op", IndexOf(ord, v)>> ELSE <<"arg", v>>]]]

\* C23: two runs of the pass on the same function, applying the patterns to
\* a fixpoint in any order of pattern and of visited operation and then
\* erasing the marked sticks, end with the same function.
C23_Confluence ==
  (phase = "done" /\ zfirst # <<>>) =>
    Canonical(ops, order) = Canonical(zfirst.ops, zfirst.order)

\* C25: when the pass finishes, no affine.store into the input buffer of a
\* stick erased from the removable set remains in the function: every chain
\* writing into that buffer has been redirected, chains that start at another
\* unstick included.
C25_ErasedStickFullyBypassed ==
  [][(zlast'.rule = "runOnOperation" /\ phase' = "done") =>
       \A s \in removableStickOps :
         ~\E st \in DOMAIN ops' :
            ops'[st].kind = "store" /\ ops'[st].opnds[2] = getX(s)]_vars

\* every operation of o follows the definitions of its operands in ord
Dominates(o, ord) ==
  \A u \in DOMAIN o : \A i \in 1..Len(o[u].opnds) :
    o[u].opnds[i] \in DOMAIN o => isBeforeInBlock(ord, o[u].opnds[i], u)

\* C26: after a successful rewrite by the chain eliminator every operation
\* follows the definitions of its operands; the stick's destination
\* allocation and the operand definitions moved with it follow the store
\* buffer's allocation and precede the cloned stores into the destination.
C26_DominanceAfterRelocation ==
  [][(/\ zlast'.rule = "UnstickLoadStoreStickRemovalPattern"
      /\ zlast'.outcome = "rewritten") =>
       /\ Dominates(ops', order')
       /\ \A st \in MatchedStores(zlast'.op) :
            LET storeAllocOp == ops[st].opnds[2]
            IN \A s \in Users(ops, storeAllocOp) \cap OpsOfKind("stick") :
                 LET stickAllocOp == getOut(s)
                 IN /\ isBeforeInBlock(order', storeAllocOp, stickAllocOp)
                    /\ \A n \in DOMAIN ops' \ DOMAIN ops :
                         (ops'[n].kind = "store" /\ ops'[n].opnds[2] = stickAllocOp) =>
                           isBeforeInBlock(order', stickAllocOp, n)]_vars

\* C27: a stick matched by the chain eliminator is recorded in the removable
\* set and no pattern erases it while the patterns are applied; it is in the
\* function when the driver returns and is then erased, once, together with
\* nothing else; when the driver fails, the pass signals failure and erases
\* none of the recorded sticks.
C27_RemovableSetLifecycle ==
  [][/\ removableStickOps \subseteq removableStickOps'
     /\ phase' \in {"rewriting", "failed"} => removableStickOps' \subseteq DOMAIN ops'
     /\ (/\ zlast'.rule = "UnstickLoadStoreStickRemovalPattern"
         /\ zlast'.outcome = "rewritten") =>
          /\ ReachedSticks(zlast'.op) # {}
          /\ ReachedSticks(zlast'.op) \subseteq removableStickOps'
     /\ zlast'.rule = "runOnOperation" =>
          /\ phase' = "done"
          /\ removableStickOps \subseteq DOMAIN ops
          /\ DOMAIN ops' = DOMAIN ops \ removableStickOps
     /\ zlast'.rule = "signalPassFailure" =>
          /\ phase' = "failed"
          /\ ops' = ops /\ order' = order]_vars

C27_Witness ==
  /\ phase = "done" /\ zlast.rule = "runOnOperation"
  /\ removableStickOps # {}
  /\ removableStickOps \subseteq DOMAIN zorig.ops \ DOMAIN ops

(***************************************************************************)
(* Part III.  InsertDeallocForAsyncExecRegionPattern.                      *)
(* A function is a main block holding one async.execute operation, whose   *)
(* region is the block "body", the async.await operations on its result    *)
(* and their users, some of them inside the block "loop" of a loop         *)
(* operation of the main block.  The value <<"exec", 0>> is the token of   *)
(* the async.execute operation, <<"exec", i>> its i-th body result; every  *)
(* other operation has at most one result, named like the operation.       *)
(***************************************************************************)
MaxApplications == 3

AOp(kind, opnds, block) == [kind |-> kind, opnds |-> opnds, block |-> block]

executeOpResult == <<"exec", 1>>

\* Operation::getParentOp of the operations of a block
ParentOp(block) ==
  IF block = "body" THEN N("exec") ELSE IF block = "loop" THEN N("forOp") ELSE <<>>

SeqRange(q) == { q[i] : i \in 1..Len(q) }

AUsers(o, v) == { u \in DOMAIN o : v \in SeqRange(o[u].opnds) }

\* the operation of the main block that is or encloses x
TopLevel(o, x) == IF o[x].block = "main" THEN x ELSE ParentOp(o[x].block)

\* a precedes b in program order
Precedes(o, b, x, y) ==
  IF o[x].block = o[y].block THEN IndexOf(b[o[x].block], x) < IndexOf(b[o[y].block], y)
  ELSE IndexOf(b["main"], TopLevel(o, x)) < IndexOf(b["main"], TopLevel(o, y))

(* The functions the pattern is applied to. *)
YieldDefs == {"regionAlloc", "outerAlloc", "notAlloc", "blockArg"}
Inputs == {"none", "once", "twice", "dealloced", "arg", "two"}
Consumers == {"noAwait", "none", "one", "two", "nested", "mainThenNested", "twoAwaits"}

AsyncGraph(yields, ydef, inp, cons) ==
  LET inA == N("inA")
      inB == N("inB")
      rA == N("rA")
      hasInA == inp \in {"once", "twice", "dealloced", "two"}
      yv == CASE ydef = "regionAlloc" -> N("y")
              [] ydef = "outerAlloc" -> N("outY")
              [] ydef = "notAlloc" -> N("k3")
              [] OTHER -> N("argY")
      firstIn == IF hasInA THEN <<inA>> ELSE IF inp = "arg" THEN <<N("argIn")>> ELSE <<>>
      secondIn == IF inp = "twice" THEN <<inA>> ELSE IF inp = "two" THEN <<inB>> ELSE <<>>
      awaited == IF yields = 0 THEN N("exec") ELSE executeOpResult
      hasAwait == cons # "noAwait"
      hasC1 == cons \notin {"noAwait", "none"}
      hasC2 == cons \in {"two", "mainThenNested", "twoAwaits"}
      hasLoop == cons \in {"nested", "mainThenNested"}
      c1Block == IF cons = "nested" THEN "loop" ELSE "main"
      c2Block == IF cons = "mainThenNested" THEN "loop" ELSE "main"
  IN
  [ ops |->
      (IF hasInA THEN (inA :> AOp("alloc", <<>>, "main")) ELSE <<>>) @@
      (IF inp = "two" THEN (inB :> AOp("alloc", <<>>, "main")) ELSE <<>>) @@
      (IF ydef = "outerAlloc" THEN (N("outY") :> AOp("alloc", <<>>, "main")) ELSE <<>>) @@
      (N("exec") :> AOp("execute", <<>>, "main")) @@
      (rA :> AOp("alloc", <<>>, "body")) @@
      (N("k1") :> AOp("compute", firstIn \o <<rA>>, "body")) @@
      (IF secondIn # <<>> THEN (N("k2") :> AOp("compute", secondIn \o <<rA>>, "body"))
       ELSE <<>>) @@
      (IF ydef = "regionAlloc" THEN (N("y") :> AOp("alloc", <<>>, "body")) ELSE <<>>) @@
      (N("k3") :> AOp("compute", IF ydef \in {"regionAlloc", "outerAlloc"} THEN <<rA, yv>>
                                 ELSE <<rA>>, "body")) @@
      (N("yield") :> AOp("yield", IF yields = 0 THEN <<>>
                                  ELSE IF yields = 1 THEN <<yv>> ELSE <<yv, rA>>, "body")) @@
      (IF hasAwait THEN (N("a1") :> AOp("await", <<awaited>>, "main")) ELSE <<>>) @@
      (IF hasC1 THEN (N("c1") :> AOp("use", <<N("a1")>>, c1Block)) ELSE <<>>) @@
      (IF cons = "twoAwaits" THEN (N("a2") :> AOp("await", <<awaited>>, "main")) ELSE <<>>) @@
      (IF hasC2
       THEN (N("c2") :> AOp("use", <<IF cons = "twoAwaits" THEN N("a2") ELSE N("a1")>>,
                            c2Block))
       ELSE <<>>) @@
      (IF hasLoop THEN (N("forOp") :> AOp("for", <<>>, "main")) ELSE <<>>) @@
      (IF inp = "dealloced" THEN (N("dIn") :> AOp("dealloc", <<inA>>, "main")) ELSE <<>>) @@
      (N("ret") :> AOp("return", <<>>, "main")),
    blocks |->
      [ main |->
          (IF hasInA THEN <<inA>> ELSE <<>>) \o
          (IF inp = "two" THEN <<inB>> ELSE <<>>) \o
          (IF ydef = "outerAlloc" THEN <<N("outY")>> ELSE <<>>) \o
          <<N("exec")>> \o
          (IF hasAwait THEN <<N("a1")>> ELSE <<>>) \o
          (IF hasC1 /\ c1Block = "main" THEN <<N("c1")>> ELSE <<>>) \o
          (IF cons = "twoAwaits" THEN <<N("a2")>> ELSE <<>>) \o
          (IF hasC2 /\ c2Block = "main" THEN <<N("c2")>> ELSE <<>>) \o
          (IF hasLoop THEN <<N("forOp")>> ELSE <<>>) \o
          (IF inp = "dealloced" THEN <<N("dIn")>> ELSE <<>>) \o
          <<N("ret")>>,
        body |->
          <<rA, N("k1")>> \o (IF secondIn # <<>> THEN <<N("k2")>> ELSE <<>>) \o
          (IF ydef = "regionAlloc" THEN <<N("y")>> ELSE <<>>) \o
          <<N("k3"), N("yield")>>,
        loop |->
          (IF hasC1 /\ c1Block = "loop" THEN <<N("c1")>> ELSE <<>>) \o
          (IF hasC2 /\ c2Block = "loop" THEN <<N("c2")>> ELSE <<>>) ] ]

AsyncGraphs ==
  { AsyncGraph(p[1], p[2], p[3], p[4]) :
      p \in { q \in (0..2) \X YieldDefs \X Inputs \X Consumers :
                \* an awaited value exists only when something is yielded
                /\ q[1] = 0 => q[2] = "regionAlloc" /\ q[4] \in {"noAwait", "none"}
                /\ q[1] = 2 => q[4] = "one" } }

(* The pattern.  It yields the set of its possible results: the order of a *)
(* use list is not part of the state, and an out-of-range element access   *)
(* (operator[] on an empty range) either fails an assertion or reads an    *)
(* arbitrary element.                                                      *)
(*   outcome "rewritten" = success(), "declined" = failure(),              *)
(*           "aborted"   = assertion failure / crash                       *)
AsyncResult(outcome, f, yielded, user, point) ==
  [outcome |-> outcome, ops |-> f.ops, blocks |-> f.blocks, nextId |-> f.nextId,
   yielded |-> yielded, user |-> user, point |-> point]

\* allocOps in body of async.execute
regionAllocOps(executeOp) == { x \in SeqRange(blocks["body"]) : aops[x].kind = "alloc" }

RECURSIVE BodyOperands(_, _)
BodyOperands(body, i) ==
  IF i > Len(body) THEN <<>> ELSE aops[body[i]].opnds \o BodyOperands(body, i + 1)

\* input values used in async.execute, one entry for each use
inputValues(executeOp) ==
  SelectSeq(BodyOperands(blocks["body"], 1),
            LAMBDA v : /\ v \in DOMAIN aops
                       /\ aops[v].kind = "alloc"
                       /\ aops[v].block # "body")

\* yAllocOp->moveBefore(executeOp)
moveBefore(f, x, executeOp) ==
  LET from == f.ops[x].block
      to == f.ops[executeOp].block
      removed == [f.blocks EXCEPT ![from] = EraseOrd(@, x)]
      i == IndexOf(removed[to], executeOp)
  IN [f EXCEPT !.ops = [@ EXCEPT ![x].block = to],
               !.blocks = [removed EXCEPT ![to] = SubSeq(@, 1, i - 1) \o <<x>> \o
                                                  SubSeq(@, i, Len(@))]]

\* users of the results of the async.await operations on the body result
awaitOutUsers(o) ==
  UNION { AUsers(o, awaitOp) :
            awaitOp \in { u \in AUsers(o, executeOpResult) : o[u].kind = "await" } }

\* create.mem.dealloc(v) at the insertion point, which moves behind the new op
createDealloc(f, v) ==
  LET d == <<"dealloc", f.nextId>>
      blk == f.ops[f.point].block
  IN [ops |-> (d :> AOp("dealloc", <<v>>, blk)) @@ f.ops,
      blocks |-> [f.blocks EXCEPT ![blk] = InsertAfter(@, f.point, d)],
      nextId |-> f.nextId + 1,
      point |-> d]

\* a test that never finds a dealloc
isDeallocatedNever(o, inVal) == FALSE

\* some user of inVal is a memref.dealloc
isDeallocated(o, inVal) == \E user \in AUsers(o, inVal) : o[user].kind = "dealloc"

RECURSIVE deallocInputs(_, _, _)
deallocInputs(f, ins, i) ==
  IF i > Len(ins) THEN f
  ELSE deallocInputs(IF isDeallocated(f.ops, ins[i]) THEN f ELSE createDealloc(f, ins[i]),
                     ins, i + 1)

\* an insertion point at the async.execute operation itself
insertionPointAtLaunch(o, yAllocOp, awaitOutUser) == N("exec")

\* the operation the deallocs are inserted after
insertionPointOp(o, yAllocOp, awaitOutUser) ==
  IF o[yAllocOp].block # o[awaitOutUser].block THEN ParentOp(o[awaitOutUser].block)
  ELSE awaitOutUser

\* the part of matchAndRewrite behind the choice of awaitOutUsers[0]
insertDeallocs(f, ins, yAllocOp, awaitOutUser) ==
  LET at == [f EXCEPT !.point = insertionPointOp(f.ops, yAllocOp, awaitOutUser)]
  IN AsyncResult("rewritten", deallocInputs(createDealloc(at, yAllocOp), ins, 1),
                 yAllocOp, awaitOutUser, at.point)

\* the part of matchAndRewrite behind the read of yieldOp.getOperands()[0]
withYieldOperand(executeOp, yieldOperand) ==
  LET f == [ops |-> aops, blocks |-> blocks, nextId |-> anextId, point |-> <<>>]
      ins == inputValues(executeOp)
  IN IF \/ yieldOperand \notin DOMAIN aops
        \/ aops[yieldOperand].kind # "alloc"
        \/ yieldOperand \notin regionAllocOps(executeOp)
     THEN {AsyncResult("declined", f, <<>>, <<>>, <<>>)}
     ELSE LET moved == moveBefore(f, yieldOperand, executeOp)
              users == awaitOutUsers(moved.ops)
          IN IF users = {}
             THEN {AsyncResult("aborted", moved, yieldOperand, <<>>, <<>>)} \cup
                  { insertDeallocs(moved, ins, yieldOperand, u) : u \in DOMAIN moved.ops }
             ELSE { insertDeallocs(moved, ins, yieldOperand, u) : u \in users }

InsertDeallocForAsyncExecRegionPattern_matchAndRewrite(executeOp) ==
  LET f == [ops |-> aops, blocks |-> blocks, nextId |-> anextId, point |-> <<>>]
      body == blocks["body"]
      yieldOp == body[Len(body)]
      operands == aops[yieldOp].opnds
  IN IF Len(operands) > 1 THEN {AsyncResult("declined", f, <<>>, <<>>, <<>>)}
     ELSE IF Len(operands) = 0
     THEN {AsyncResult("aborted", f, <<>>, <<>>, <<>>)} \cup
          UNION { withYieldOperand(executeOp, v) :
                    v \in DOMAIN aops \cup {N("argIn"), N("argY")} }
     ELSE withYieldOperand(executeOp, operands[1])

(* The greedy application of the pattern to the async.execute operation. *)
InsertDeallocForAsyncExecRegionPattern ==
  /\ aphase = "rewriting"
  /\ aattempts < MaxApplications
  /\ \E r \in InsertDeallocForAsyncExecRegionPattern_matchAndRewrite(N("exec")) :
       /\ aops' = r.ops
       /\ blocks' = r.blocks
       /\ anextId' = r.nextId
       /\ alast' = [outcome |-> r.outcome, yielded |-> r.yielded, user |-> r.user,
                    point |-> r.point]
       /\ aphase' = IF r.outcome = "aborted" THEN "aborted" ELSE "rewriting"
  /\ aattempts' = aattempts + 1
  /\ UNCHANGED <<aorig, loopVars, zlowVars, rnnVars, convVars>>

AsyncInit ==
  \E g \in AsyncGraphs :
    /\ LoopIdle
    /\ ZLowIdle
    /\ RnnIdle
    /\ ConvIdle
    /\ aops = g.ops
    /\ blocks = g.blocks
    /\ anextId = 1
    /\ alast = NoApplication
    /\ aphase = "rewriting"
    /\ aattempts = 0
    /\ aorig = g

AsyncNext == InsertDeallocForAsyncExecRegionPattern

SpecAsync == AsyncInit /\ [][AsyncNext]_vars

(***************************************************************************)
(* Claims about InsertDeallocForAsyncExecRegionPattern, checked under      *)
(* SpecAsync.                                                              *)
(***************************************************************************)
\* the operands of the region's async.yield before any application
YieldOperands == aorig.ops[N("yield")].opnds

\* the memref.dealloc operations of buffer b
DeallocsOf(o, b) == { d \in DOMAIN o : o[d].kind = "dealloc" /\ o[d].opnds = <<b>> }

\* the buffers allocated outside the region and used inside it
InputBuffers(o) ==
  { b \in DOMAIN o : /\ o[b].kind = "alloc" /\ o[b].block # "body"
                     /\ \E u \in AUsers(o, b) : o[u].block = "body" }

\* the region yields one value and the awaited value has a consumer: no
\* out-of-range access happens in matchAndRewrite
InRange == Len(YieldOperands) = 1 /\ awaitOutUsers(aorig.ops) # {}

\* C17: no reader of a buffer comes after a dealloc the pattern inserted for
\* it: the operations of the region that use the buffer, the async.await
\* operations and every consumer of the awaited value, in the same or in a
\* nested block, precede the dealloc of the yielded buffer.
C17_NoReaderAfterDealloc ==
  (InRange /\ aphase = "rewriting") =>
    \A d \in DOMAIN aops \ DOMAIN aorig.ops :
      LET b == aops[d].opnds[1]
      IN /\ \A r \in AUsers(aops, b) \ {d} : Precedes(aops, blocks, r, d)
         /\ b = YieldOperands[1] =>
              /\ \A a \in AUsers(aops, executeOpResult) : Precedes(aops, blocks, a, d)
              /\ \A r \in awaitOutUsers(aops) : Precedes(aops, blocks, r, d)

\* C18: however often the pattern is applied, the yielded buffer has exactly
\* one dealloc once the pattern has moved its allocation and none before, and
\* no input buffer has more than one dealloc, even when several operations of
\* the region use it.
C18_OneDeallocPerBuffer ==
  aphase = "rewriting" =>
    /\ \A b \in InputBuffers(aops) : Cardinality(DeallocsOf(aops, b)) <= 1
    /\ (Len(YieldOperands) = 1 /\ YieldOperands[1] \in regionAllocOps(N("exec"))) =>
         DeallocsOf(aops, YieldOperands[1]) = {}
    /\ (/\ Len(YieldOperands) = 1
        /\ YieldOperands[1] \in DOMAIN aops
        /\ aorig.ops[YieldOperands[1]].block = "body"
        /\ aops[YieldOperands[1]].block = "main") =>
         Cardinality(DeallocsOf(aops, YieldOperands[1])) = 1

C18_Witness ==
  /\ aattempts = MaxApplications
  /\ aphase = "rewriting"
  /\ alast.outcome = "declined"
  /\ Len(YieldOperands) = 1
  /\ Cardinality(DeallocsOf(aops, YieldOperands[1])) = 1
  /\ \E b \in InputBuffers(aops) :
       /\ Cardinality({ u \in AUsers(aops, b) : aops[u].block = "body" }) = 2
       /\ Cardinality(DeallocsOf(aops, b)) = 1
       /\ DeallocsOf(aorig.ops, b) = {}

\* the operations of block q strictly between positions i and j
Between(q, i, j) == { q[k] : k \in (i + 1)..(j - 1) }

\* C19: for every buffer allocated outside the region and used inside it, the
\* pattern inserts a dealloc right after the async.execute operation (only
\* other inserted deallocs in between), and none when the buffer already has
\* a dealloc.
C19_InputDeallocAtLaunch ==
  [][(InRange /\ alast'.outcome = "rewritten") =>
       \A b \in InputBuffers(aops) :
         IF DeallocsOf(aops, b) # {} THEN DeallocsOf(aops', b) = DeallocsOf(aops, b)
         ELSE \E d \in DeallocsOf(aops', b) :
                /\ aops'[d].block = "main"
                /\ Between(blocks'["main"], IndexOf(blocks'["main"], N("exec")),
                           IndexOf(blocks'["main"], d)) \subseteq DOMAIN aops' \ DOMAIN aops]_vars

\* C19 (as the code has it): for every buffer allocated outside the region and
\* used inside it, the pattern inserts one dealloc behind the dealloc of the
\* yielded buffer, which follows a consumer of the awaited value or the loop
\* enclosing it (only inserted deallocs in between), and none when the buffer
\* already has a dealloc.
C19_InputDeallocAfterConsumer ==
  [][(InRange /\ alast'.outcome = "rewritten") =>
       LET user == alast'.user
           at == TopLevel(aops', user)
           main == blocks'["main"]
           created == DOMAIN aops' \ DOMAIN aops
       IN /\ user \in awaitOutUsers(aops)
          /\ \A b \in InputBuffers(aops) :
               IF DeallocsOf(aops, b) # {} THEN DeallocsOf(aops', b) = DeallocsOf(aops, b)
               ELSE /\ Cardinality(DeallocsOf(aops', b)) = 1
                    /\ \A d \in DeallocsOf(aops', b) :
                         /\ aops'[d].block = "main"
                         /\ Precedes(aops', blocks', user, d)
                         /\ \A y \in DeallocsOf(aops', alast'.yielded) :
                              Precedes(aops', blocks', y, d)
                         /\ Between(main, IndexOf(main, at), IndexOf(main, d))
                              \subseteq created]_vars

C19_Witness ==
  /\ InRange
  /\ alast.outcome = "rewritten"
  /\ \E b \in InputBuffers(aops) :
       /\ DeallocsOf(aorig.ops, b) = {}
       /\ \E d \in DeallocsOf(aops, b) : Precedes(aops, blocks, alast.user, d)

\* C20: the pattern declines, changing nothing and without an assertion
\* failure or an out-of-range read, when the region yields no value or more
\* than one, and when the yielded value is not the result of an allocation
\* inside the region.
C20_DeclinesOnUnsupportedRegion ==
  [][aattempts' = aattempts + 1 =>
       LET operands == aops[N("yield")].opnds
           unsupported ==
             \/ Len(operands) # 1
             \/ operands[1] \notin regionAllocOps(N("exec"))
       IN unsupported =>
            /\ alast'.outcome = "declined"
            /\ aops' = aops /\ blocks' = blocks]_vars

(***************************************************************************)
(* Part IV.  RNNOpRewriteLayoutPattern (src/Dialect/ONNX/Rewrite.cpp).     *)
(* rnn is one ONNXGRUOp, ONNXLSTMOp or ONNXRNNOp: its kind, its layout     *)
(* attribute and its operands X, initial_h, initial_c; rnnUses is, for     *)
(* each result Y, Y_h, Y_c, the value its users read.  None is a value of  *)
(* NoneType: an omitted operand or result.                                 *)
(***************************************************************************)
MaxRnnApplications == 3

None == N("none")

perm3RNN == <<1, 0, 2>>

perm4RNN == <<2, 0, 1, 3>>

\* the result of the next ONNXTransposeOp the rewriter creates
NextTranspose(s) == <<"transpose", Cardinality(DOMAIN s.tr) + 1>>

\* InputOutputTransposer::transposeInput
transposeInput(s, operand, perm) ==
  LET input == s.op[operand]
      transposed == NextTranspose(s)
  IN IF input = None THEN s
     ELSE [s EXCEPT !.tr = (transposed :> [input |-> input, perm |-> perm]) @@ @,
                    !.op[operand] = transposed]

\* InputOutputTransposer::transposeOutput
transposeOutput(s, output, perm) ==
  LET transposed == NextTranspose(s)
  IN IF s.uses[output] = None THEN s
     ELSE [s EXCEPT !.tr = (transposed :> [input |-> N(output), perm |-> perm]) @@ @,
                    !.uses[output] = transposed]

\* onnxOp.layout() == 0
layoutIsZero(layout) == layout = 0

\* matchAndRewrite on the operation s.op: the LogicalResult and what it leaves
RNNOpRewriteLayoutPattern_matchAndRewrite(s) ==
  LET onnxLSTMOp == s.op.kind = "LSTM"
      s1 == transposeInput(s, "X", perm3RNN)
      s2 == transposeInput(s1, "initial_h", perm3RNN)
      s3 == IF onnxLSTMOp THEN transposeInput(s2, "initial_c", perm3RNN) ELSE s2
      s4 == [s3 EXCEPT !.op.layout = 0]
      s5 == transposeOutput(s4, "Y", perm4RNN)
      s6 == transposeOutput(s5, "Y_h", perm3RNN)
      s7 == IF onnxLSTMOp THEN transposeOutput(s6, "Y_c", perm3RNN) ELSE s6
  IN IF layoutIsZero(s.op.layout)
     THEN [outcome |-> "success", s |-> s]
     ELSE [outcome |-> "success", s |-> s7]

\* the greedy driver applies the pattern to the operation again for as long
\* as it reports success
RNNOpRewriteLayoutPattern ==
  /\ rnn # <<>>
  /\ rattempts < MaxRnnApplications
  /\ rlast # "failure"
  /\ LET r == RNNOpRewriteLayoutPattern_matchAndRewrite(
                [op |-> rnn, uses |-> rnnUses, tr |-> rnnTransposes])
     IN /\ rnn' = r.s.op
        /\ rnnUses' = r.s.uses
        /\ rnnTransposes' = r.s.tr
        /\ rlast' = r.outcome
  /\ rattempts' = rattempts + 1
  /\ UNCHANGED <<loopVars, zlowVars, asyncVars, convVars>>

RnnInit ==
  \E kind \in {"GRU", "LSTM", "RNN"}, layout \in {0, 1},
     h \in {None, N("h0")}, c \in {None, N("c0")},
     y \in {None, N("Y")}, yh \in {None, N("Y_h")}, yc \in {None, N("Y_c")} :
    /\ kind # "LSTM" => (c = None /\ yc = None)
    /\ LoopIdle /\ ZLowIdle /\ AsyncIdle /\ ConvIdle
    /\ rnn = [kind |-> kind, layout |-> layout, X |-> N("X"), initial_h |-> h,
              initial_c |-> c]
    /\ rnnUses = [Y |-> y, Y_h |-> yh, Y_c |-> yc]
    /\ rnnTransposes = <<>>
    /\ rattempts = 0
    /\ rlast = "none"

RnnNext == RNNOpRewriteLayoutPattern

SpecRnn == RnnInit /\ [][RnnNext]_vars

\* C29: the pattern reports a match only when it changes the operation; on
\* an operation whose layout is already 0 it reports no match, so that it
\* reports success at most once for one operation.
C29_SuccessOnlyOnChange ==
  [][rattempts' = rattempts + 1 =>
       /\ rlast' = "success" => (rnn' # rnn /\ rnn.layout = 1)
       /\ rnn.layout = 0 =>
            /\ rlast' = "failure"
            /\ rnn' = rnn /\ rnnUses' = rnnUses /\ rnnTransposes' = rnnTransposes]_vars

(***************************************************************************)
(* Part V.  reverseWeightTensor (src/Transform/ONNX/DecomposeAfter.cpp).   *)
(* A tensor is [type, shape, elem]: the shape of its type (kDynamic for a  *)
(* dimension unknown at compile time), the shape it has at run time, and   *)
(* for each index tuple the index tuple of the weight tensor whose element *)
(* it holds.  Axis i of the code is position i + 1 of a sequence.          *)
(***************************************************************************)
MaxSpatialRank == 4

kDynamic == -1

DimSizes == {1, 2}

Tensor(type, shape, elem) == [type |-> type, shape |-> shape, elem |-> elem]

\* ONNXTransposeOp: result dimension i is input dimension perms[i]
emitONNXTranspose(x, perms) ==
  LET n == Len(perms)
      shape == [i \in 1..n |-> x.shape[perms[i] + 1]]
  IN Tensor([i \in 1..n |-> x.type[perms[i] + 1]], shape,
            [c \in Cells(shape) |->
               x.elem[[j \in 1..n |-> c[CHOOSE i \in 1..n : perms[i] + 1 = j]]]])

\* ONNXReverseSequenceOp: for each index b of batch_axis the first
\* sequence_lens[b] elements along time_axis are reversed
reverseSequence(x, slens, batchAxis, timeAxis) ==
  Tensor(x.type, x.shape,
         [c \in Cells(x.shape) |->
            LET b == c[batchAxis + 1]
                t == c[timeAxis + 1]
            IN IF b <= Len(slens) /\ t <= slens[b]
               THEN x.elem[[c EXCEPT ![timeAxis + 1] = slens[b] + 1 - t]]
               ELSE x.elem[c]])

\* ONNXReshapeOp: the elements in row-major order under another shape
reshape(x, type, shape) ==
  Tensor(type, shape,
         [c \in Cells(shape) |-> x.elem[CellAt(x.shape, Linear(shape, c))]])

\* Reverse all elements of the first or second dimension of input.
reverseAllElements(input, dimension) ==
  LET batchAxis == IF dimension = 0 THEN 1 ELSE 0
      timeAxis == IF dimension = 0 THEN 0 ELSE 1
      count == IF input.type[batchAxis + 1] < 0 THEN 0 ELSE input.type[batchAxis + 1]
      slens == [i \in 1..count |-> input.type[timeAxis + 1]]
  IN reverseSequence(input, slens, batchAxis, timeAxis)

\* the passes of the loop "for (int i = 0; i < spatialRank / 2; i += 2)"
loopPasses(spatialRank) == (spatialRank \div 2 + 1) \div 2

\* 2. Reverse the first and second dimensions, passes times
RECURSIVE reversePairs(_, _, _)
reversePairs(transposedInput, rank, passes) ==
  IF passes = 0 THEN transposedInput
  ELSE LET reverse0 == reverseAllElements(transposedInput, 0)
           reverse1 == reverseAllElements(reverse0, 1)
           permsval0 == [j \in 1..rank |-> IF j <= rank - 2 THEN j + 1 ELSE j - (rank - 2) - 1]
       IN reversePairs(emitONNXTranspose(reverse1, permsval0), rank, passes - 1)

\* 3. Reverse the rest of dimension if spatial rank is odd
reverseRest(transposedInput, rank) ==
  LET tInShape == transposedInput.type
      reshaped == reshape(transposedInput,
                          <<tInShape[1], 1>> \o SubSeq(tInShape, 2, rank),
                          <<transposedInput.shape[1], 1>> \o
                            SubSeq(transposedInput.shape, 2, rank))
      reverse0 == IF tInShape[2] = kDynamic
                  THEN reshape(reverseAllElements(reshaped, 0), tInShape,
                               transposedInput.shape)
                  ELSE reverseAllElements(transposedInput, 0)
      permsval1 == [j \in 1..rank |-> IF j <= rank - 1 THEN j ELSE 0]
  IN emitONNXTranspose(reverse0, permsval1)

reverseWeightTensor(input) ==
  LET rank == Len(input.type)
      spatialOffset == 2
      spatialRank == rank - spatialOffset
      permsval == [i \in 1..rank |-> IF i <= spatialRank THEN spatialOffset + i - 1
                                     ELSE i - spatialRank - 1]
      step1 == emitONNXTranspose(input, permsval)
      step2 == reversePairs(step1, rank, loopPasses(spatialRank))
      step3 == IF spatialRank % 2 # 0 THEN reverseRest(step2, rank) ELSE step2
      permsval2 == [i \in 1..rank |-> IF i <= spatialOffset THEN spatialOffset - i
                                      ELSE i - 1]
  IN emitONNXTranspose(step3, permsval2)

\* the weight tensors of a ConvTranspose: N x C x D0 x ... x Dk-1, N possibly
\* unknown at compile time
Weights ==
  UNION { { Tensor(IF dynN THEN [shape EXCEPT ![1] = kDynamic] ELSE shape, shape,
                   [c \in Cells(shape) |-> c]) :
              shape \in [1..(k + 2) -> DimSizes], dynN \in BOOLEAN } :
          k \in 1..MaxSpatialRank }

ApplyReverseWeightTensor ==
  /\ weight # <<>>
  /\ reversed = <<>>
  /\ reversed' = reverseWeightTensor(weight)
  /\ UNCHANGED <<weight, loopVars, zlowVars, asyncVars, rnnVars>>

ConvInit ==
  \E w \in Weights :
    /\ LoopIdle /\ ZLowIdle /\ AsyncIdle /\ RnnIdle
    /\ weight = w
    /\ reversed = <<>>

ConvNext == ApplyReverseWeightTensor

SpecConv == ConvInit /\ [][ConvNext]_vars

\* C x N x D0 x ... x Dk-1 with every spatial dimension reversed
ReversedWeight(w) ==
  LET rank == Len(w.shape)
      swap(v) == <<v[2], v[1]>> \o SubSeq(v, 3, rank)
      shape == swap(w.shape)
  IN [shape |-> shape,
      elem |-> [c \in Cells(shape) |->
                  [j \in 1..rank |-> IF j = 1 THEN c[2] ELSE IF j = 2 THEN c[1]
                                     ELSE shape[j] + 1 - c[j]]]]

\* C30: for a weight N x C x D0 x ... x Dk-1 with any number k >= 1 of
\* spatial dimensions, reverseWeightTensor produces the dimension order
\* C x N x D0 x ... x Dk-1 with every spatial dimension reversed and neither
\* N nor C reversed.
C30_ReversesEverySpatialDim ==
  reversed # <<>> =>
    /\ reversed.shape = ReversedWeight(weight).shape
    /\ reversed.elem = ReversedWeight(weight).elem

====
